---- MODULE Spec2Model ----
(***************************************************************************)
(* A model of the manual expectation runner of dq-setup:                   *)
(* run_expectations_manually(df, table_name, expectations_config) in       *)
(* src/basic_expectations_test.py.  One call is a loop over the rules; the *)
(* state is the call's inputs (df, expectations_config), the result list   *)
(* built so far, the loop position and the call's control state.  The      *)
(* script's main() makes one call per test table and turns the results     *)
(* into the exit code of the process.  The command line of src/main.py,    *)
(* with GXRunner of src/src/gx_runner.py behind it, is modelled step by    *)
(* step down to its exit code; what the libraries and the services answer  *)
(* is chosen freely at each step.                                          *)
(*                                                                         *)
(* Python and pandas values are encoded as records of one shape per sort   *)
(* so that any two of them can be compared:                                *)
(*   cell of a column   [k, n, s]   k in null/num/str/ts, s a sequence of  *)
(*                                  one-character strings                  *)
(*   optional dict key  [t, ...]    t = "absent" when the key is missing   *)
(*   success            "True", "False" (a bool) or "Series" (a pandas     *)
(*                      Series of bools, which has no truth value)         *)
(***************************************************************************)
EXTENDS Integers, Sequences, FiniteSets, TLC

VARIABLES
  \* the call run_expectations_manually(df, table_name, expectations_config)
  df, table_name, expectations_config, results, idx, pc,
  \* main() of basic_expectations_test.py
  tests, test_results, overall_success, exit_code, main_pc,
  \* the command line of main.py and its GXRunner
  argv, environ, table_configs, checkpoints_config, services,
  gx_runner, adls_client, expectation_suites, checkpoints,
  validation_results, self_validation_results, uploads,
  trace, raised, step, status, logged,
  \* DQYamlParser.load_config
  file, yaml_content, env_pos, config, load_pc,
  \* the loggers of the logging module, setup_logger
  loggers, calls, returned

call == <<df, table_name, expectations_config, results, idx, pc>>
runner == <<tests, test_results, overall_success, exit_code, main_pc>>
cli == <<argv, environ, table_configs, checkpoints_config, services,
         gx_runner, adls_client, expectation_suites, checkpoints,
         validation_results, self_validation_results, uploads,
         trace, raised, step, status, logged>>
loader == <<file, yaml_content, env_pos, config, load_pc>>
logging == <<loggers, calls, returned>>
vars == <<call, runner, cli, loader, logging>>

\* Bounds of the explored inputs.
MaxRows == 2
MaxCols == 2
MaxRules == 2
MaxTables == 2
MaxCalls == 3

-----------------------------------------------------------------------------
(* Cells and columns of a pandas DataFrame *)

Null == [k |-> "null", n |-> 0, s |-> <<>>]
Num(i) == [k |-> "num", n |-> i, s |-> <<>>]
Str(cs) == [k |-> "str", n |-> 0, s |-> cs]
Ts(i) == [k |-> "ts", n |-> i, s |-> <<>>]

EmailStr == <<"a", "@", "x">>
PlainStr == <<"a", "b">>

IsNull(c) == c.k = "null"

\* The cells a column of each dtype can hold (NaN, None and NaT are Null).
CellsOf(dtype) ==
  CASE dtype = "int64" -> {Num(1), Num(2)}
    [] dtype = "float64" -> {Num(1), Num(2), Null}
    [] dtype = "object" -> {Str(EmailStr), Str(PlainStr), Null}
    [] dtype = "datetime64[ns]" -> {Ts(1), Null}

Column(name, dtype, vals) == [name |-> name, dtype |-> dtype, vals |-> vals]

ColNames == {"id", "email"}

\* Every typed content of a column of n rows.  A numeric column without a
\* missing value is int64, with one it is float64 (pandas' inference).
Contents(n) ==
  { [dtype |-> d, vals |-> v] : d \in {"int64"}, v \in [1..n -> CellsOf("int64")] }
  \cup { c \in { [dtype |-> d, vals |-> v] :
                   d \in {"float64"}, v \in [1..n -> CellsOf("float64")] } :
           n = 0 \/ \E i \in 1..n : IsNull(c.vals[i]) }
  \cup { [dtype |-> d, vals |-> v] : d \in {"object"}, v \in [1..n -> CellsOf("object")] }
  \cup { [dtype |-> d, vals |-> v] :
           d \in {"datetime64[ns]"}, v \in [1..n -> CellsOf("datetime64[ns]")] }

IdFill(n) == [i \in 1..n |-> Num(i)]
EmailFill(n) == [i \in 1..n |-> Str(EmailStr)]

DataFrame(nrows, columns) == [nrows |-> nrows, columns |-> columns]

Shapes == UNION { [1..c -> ColNames] : c \in 0..MaxCols }

\* Tables of every shape (column names in any order, repeated names
\* included, which pandas allows) whose columns hold the ids 1..n.
WideDatasets ==
  { DataFrame(n, [i \in 1..Len(sh) |-> Column(sh[i], "int64", IdFill(n))]) :
      n \in 0..MaxRows, sh \in Shapes }

\* Tables whose column "id" holds every content, alone or after an "email"
\* column.
DeepDatasets ==
  UNION { UNION { { DataFrame(n, <<Column("id", c.dtype, c.vals)>>),
                    DataFrame(n, <<Column("email", "object", EmailFill(n)),
                                   Column("id", c.dtype, c.vals)>>) } :
                  c \in Contents(n) } :
          n \in 0..MaxRows }

Datasets == WideDatasets \cup DeepDatasets

-----------------------------------------------------------------------------
(* Rules: the dicts of expectations_config *)

\* exp['name']
NoName == [t |-> "absent", v |-> ""]
Name(s) == [t |-> "str", v |-> s]

\* exp['column']: missing, a column name, or (malformed) a list of names
NoColumn == [t |-> "absent", names |-> <<>>]
ColumnName(s) == [t |-> "str", names |-> <<s>>]
ColumnList(ns) == [t |-> "list", names |-> ns]

\* The values of exp['parameters']
NoBound == [t |-> "absent", n |-> 0]
IntBound(i) == [t |-> "int", n |-> i]
StrBound == [t |-> "str", n |-> 0]
NoNames == [t |-> "absent", names |-> <<>>]
NameList(ns) == [t |-> "list", names |-> ns]
NoText == [t |-> "absent", s |-> <<>>]
PyStr(cs) == [t |-> "str", s |-> cs]
NoCells == [t |-> "absent", vals |-> <<>>]
CellList(vs) == [t |-> "list", vals |-> vs]

\* exp['parameters']: missing, or a dict in which each key may be missing
Dict(mn, mx, cl, rx, vs, ty) ==
  [t |-> "dict", min_value |-> mn, max_value |-> mx, column_list |-> cl,
   regex |-> rx, value_set |-> vs, type_ |-> ty]
EmptyDict == Dict(NoBound, NoBound, NoNames, NoText, NoCells, NoText)
NoParameters == [EmptyDict EXCEPT !.t = "absent"]

Rule(name, column, parameters) ==
  [name |-> name, column |-> column, parameters |-> parameters]

-----------------------------------------------------------------------------
(* Results and the outcome of one pass through the try block *)

\* A formatted text or observed value: the f-string's template and what is
\* put in its holes (numbers, names, cells).
Text(fmt, nums, names, cells) ==
  [fmt |-> fmt, nums |-> nums, names |-> names, cells |-> cells]

Result(expectation, success, observed_value, details) ==
  [expectation |-> expectation, success |-> success,
   observed_value |-> observed_value, details |-> details]

PyBool(b) == IF b THEN "True" ELSE "False"

\* An exception: its type and str(e) (for a KeyError, the missing key).
Exc(type, arg) == [type |-> type, arg |-> arg]
NoExc == Exc("", "")

NoResult == Result("", "False", Text("", <<>>, <<>>, <<>>), Text("", <<>>, <<>>, <<>>))

\* The branch built its result dict / the branch raised before building it.
Computed(r) == [exc |-> NoExc, result |-> r]
Raised(e) == [exc |-> e, result |-> NoResult]

-----------------------------------------------------------------------------
(* Python string operations on sequences of characters *)

UpperCase == <<"A", "B", "C", "D", "E", "F", "G", "H", "I", "J", "K", "L", "M",
               "N", "O", "P", "Q", "R", "S", "T", "U", "V", "W", "X", "Y", "Z">>
LowerCase == <<"a", "b", "c", "d", "e", "f", "g", "h", "i", "j", "k", "l", "m",
               "n", "o", "p", "q", "r", "s", "t", "u", "v", "w", "x", "y", "z">>

LowerChar(c) ==
  IF \E i \in 1..Len(UpperCase) : UpperCase[i] = c
  THEN LowerCase[CHOOSE i \in 1..Len(UpperCase) : UpperCase[i] = c]
  ELSE c

\* str.lower()
Lower(cs) == [i \in 1..Len(cs) |-> LowerChar(cs[i])]

\* sub in cs
Contains(sub, cs) ==
  \E i \in 0..(Len(cs) - Len(sub)) : \A j \in 1..Len(sub) : cs[i + j] = sub[j]

-----------------------------------------------------------------------------
(* pandas operations *)

RECURSIVE Concat(_)
Concat(ss) == IF ss = <<>> THEN <<>> ELSE Head(ss) \o Concat(Tail(ss))

ColumnsNamed(frame, nm) == SelectSeq(frame.columns, LAMBDA c : c.name = nm)

\* df[column]: a Series when one column bears the name, a DataFrame when
\* several do or when column is a list of names, KeyError when a name is
\* borne by no column.
GetItem(frame, column) ==
  IF \E i \in 1..Len(column.names) : ColumnsNamed(frame, column.names[i]) = <<>>
  THEN [kind |-> "KeyError", cols |-> <<>>]
  ELSE LET cols == Concat([i \in 1..Len(column.names) |->
                             ColumnsNamed(frame, column.names[i])])
       IN IF column.t = "str" /\ Len(cols) = 1
          THEN [kind |-> "Series", cols |-> cols]
          ELSE [kind |-> "DataFrame", cols |-> cols]

\* The key a failed df[column] reports
MissingName(frame, column) ==
  column.names[CHOOSE i \in 1..Len(column.names) :
                 ColumnsNamed(frame, column.names[i]) = <<>>]

\* Faulty variant: notnull() in place of isnull()
NotNullCount(col) == Cardinality({i \in 1..Len(col.vals) : ~IsNull(col.vals[i])})

\* Series.isnull().sum()
NullCount(col) == Cardinality({i \in 1..Len(col.vals) : IsNull(col.vals[i])})

\* Faulty variant: count() in place of nunique()
NonMissingCount(col) == Cardinality({i \in 1..Len(col.vals) : ~IsNull(col.vals[i])})

\* Faulty variant: nunique(dropna=False), a missing value counted as one value
NUniqueKeepNa(col) == Cardinality({col.vals[i] : i \in 1..Len(col.vals)})

\* Series.nunique(): the number of distinct values, missing ones left out
\* (dropna=True is the default)
NUnique(col) ==
  Cardinality({col.vals[i] : i \in {j \in 1..Len(col.vals) : ~IsNull(col.vals[j])}})

\* Series.str.contains('@', na=False).sum()
AtCount(col) ==
  Cardinality({i \in 1..Len(col.vals) :
                 col.vals[i].k = "str" /\ Contains(<<"@">>, col.vals[i].s)})

\* Whether Series >= bound and Series <= bound (an int bound) can be
\* evaluated: numeric columns compare; a datetime column does not; an object
\* column compares element by element, missing elements without a comparison.
CanCompare(col) ==
  CASE col.dtype \in {"int64", "float64"} -> TRUE
    [] col.dtype = "datetime64[ns]" -> FALSE
    [] col.dtype = "object" -> \A i \in 1..Len(col.vals) : IsNull(col.vals[i])

\* Faulty variant: the upper bound left out of the range
InRangeBelowMax(col, lo, hi) ==
  \A i \in 1..Len(col.vals) :
    /\ col.vals[i].k = "num"
    /\ lo <= col.vals[i].n
    /\ col.vals[i].n < hi

\* ((Series >= lo) & (Series <= hi)).all(): a missing value compares False
InRange(col, lo, hi) ==
  \A i \in 1..Len(col.vals) :
    /\ col.vals[i].k = "num"
    /\ lo <= col.vals[i].n
    /\ col.vals[i].n <= hi

NumsOf(col) == {col.vals[i].n : i \in {j \in 1..Len(col.vals) : col.vals[j].k = "num"}}

\* Series.min() and Series.max(): missing values skipped, nan when none is left
SeriesMin(col) ==
  IF NumsOf(col) = {} THEN Null
  ELSE Num(CHOOSE x \in NumsOf(col) : \A y \in NumsOf(col) : x <= y)
SeriesMax(col) ==
  IF NumsOf(col) = {} THEN Null
  ELSE Num(CHOOSE x \in NumsOf(col) : \A y \in NumsOf(col) : x >= y)

\* Faulty variant: strings compared without regard to case
AllInIgnoreCase(col, values) ==
  \A i \in 1..Len(col.vals) : \E j \in 1..Len(values) :
    /\ values[j].k = col.vals[i].k
    /\ values[j].n = col.vals[i].n
    /\ Lower(values[j].s) = Lower(col.vals[i].s)

\* Series.isin(values).all()
AllIn(col, values) ==
  \A i \in 1..Len(col.vals) : \E j \in 1..Len(values) : values[j] = col.vals[i]

\* list(Series.unique()): the distinct values in order of first appearance
RECURSIVE UniqueList(_)
UniqueList(vals) ==
  IF vals = <<>> THEN <<>>
  ELSE LET front == UniqueList(SubSeq(vals, 1, Len(vals) - 1))
           last == vals[Len(vals)]
       IN IF \E i \in 1..Len(front) : front[i] = last THEN front
          ELSE Append(front, last)

\* pd.api.types.is_datetime64_any_dtype(Series)
IsDatetime(col) == col.dtype = "datetime64[ns]"

-----------------------------------------------------------------------------
(* The branches of run_expectations_manually, one per rule kind.  Each gives *)
(* the outcome of the branch: the result dict it builds, or the exception   *)
(* raised before the dict is complete.                                      *)

KeyError(key) == Exc("KeyError", key)
TypeError == Exc("TypeError", "not supported between instances")
AttributeError(attr) == Exc("AttributeError", attr)
ValueError == Exc("ValueError", "The truth value of a Series is ambiguous")

\* Faulty variant: min_val < row_count <= max_val
BetweenAboveMin(lo, x, hi) == lo < x /\ x <= hi

\* min_val <= row_count <= max_val on ints
Between(lo, x, hi) == lo <= x /\ x <= hi

ExpectTableRowCountToBeBetween(frame, exp) ==
  LET p == exp.parameters
      row_count == frame.nrows
  IN IF p.t = "absent" THEN Raised(KeyError("parameters"))
     ELSE IF p.min_value.t = "absent" THEN Raised(KeyError("min_value"))
     ELSE IF p.max_value.t = "absent" THEN Raised(KeyError("max_value"))
     \* the chained comparison evaluates min_val <= row_count first and
     \* row_count <= max_val only when that holds
     ELSE IF p.min_value.t # "int" THEN Raised(TypeError)
     ELSE IF p.min_value.n <= row_count /\ p.max_value.t # "int" THEN Raised(TypeError)
     ELSE Computed(Result(exp.name.v,
                          PyBool(Between(p.min_value.n, row_count, p.max_value.n)),
                          Text("int", <<row_count>>, <<>>, <<>>),
                          Text("Row count {} should be between {} and {}",
                               <<row_count, p.min_value.n, p.max_value.n>>, <<>>, <<>>)))

\* Faulty variant: the two lists compared as sets of names
SameNames(actual_cols, expected_cols) ==
  {actual_cols[i] : i \in 1..Len(actual_cols)}
    = {expected_cols[i] : i \in 1..Len(expected_cols)}

\* actual_cols == expected_cols
SameList(actual_cols, expected_cols) == actual_cols = expected_cols

\* list(df.columns)
ActualCols(frame) == [i \in 1..Len(frame.columns) |-> frame.columns[i].name]

ExpectTableColumnsToMatchOrderedList(frame, exp) ==
  LET p == exp.parameters
      actual_cols == ActualCols(frame)
  IN IF p.t = "absent" THEN Raised(KeyError("parameters"))
     ELSE IF p.column_list.t = "absent" THEN Raised(KeyError("column_list"))
     ELSE Computed(Result(exp.name.v,
                          PyBool(SameList(actual_cols, p.column_list.names)),
                          Text("list", <<>>, actual_cols, <<>>),
                          Text("Expected columns {}, got {}", <<>>,
                               p.column_list.names \o actual_cols, <<>>)))

ExpectColumnValuesToNotBeNull(frame, exp) ==
  LET sel == GetItem(frame, exp.column)
      counts == [i \in 1..Len(sel.cols) |-> NullCount(sel.cols[i])]
  IN IF exp.column.t = "absent" THEN Raised(KeyError("column"))
     ELSE IF sel.kind = "KeyError" THEN Raised(KeyError(MissingName(frame, exp.column)))
     ELSE Computed(Result(exp.name.v,
                          \* on a DataFrame null_count == 0 is a Series
                          IF sel.kind = "Series" THEN PyBool(counts[1] = 0) ELSE "Series",
                          Text("{} nulls in {}", counts, exp.column.names, <<>>),
                          Text("Column {} should have no null values", <<>>,
                               exp.column.names, <<>>)))

ExpectColumnValuesToBeUnique(frame, exp) ==
  LET sel == GetItem(frame, exp.column)
      unique_counts == [i \in 1..Len(sel.cols) |-> NUnique(sel.cols[i])]
      total_count == frame.nrows
  IN IF exp.column.t = "absent" THEN Raised(KeyError("column"))
     ELSE IF sel.kind = "KeyError" THEN Raised(KeyError(MissingName(frame, exp.column)))
     ELSE Computed(Result(exp.name.v,
                          IF sel.kind = "Series" THEN PyBool(unique_counts[1] = total_count)
                          ELSE "Series",
                          Text("{} unique out of {}", Append(unique_counts, total_count),
                               <<>>, <<>>),
                          Text("Column {} should have all unique values", <<>>,
                               exp.column.names, <<>>)))

\* Faulty variant: the word looked for in the pattern as written
IsEmailPatternAsWritten(regex_pattern) ==
  \/ Contains(<<"e", "m", "a", "i", "l">>, regex_pattern)
  \/ Contains(<<"@">>, regex_pattern)

\* 'email' in regex_pattern.lower() or '@' in regex_pattern
IsEmailPattern(regex_pattern) ==
  \/ Contains(<<"e", "m", "a", "i", "l">>, Lower(regex_pattern))
  \/ Contains(<<"@">>, regex_pattern)

ExpectColumnValuesToMatchRegex(frame, exp) ==
  LET p == exp.parameters
      sel == GetItem(frame, exp.column)
      matches == AtCount(sel.cols[1])
  IN IF exp.column.t = "absent" THEN Raised(KeyError("column"))
     ELSE IF p.t = "absent" THEN Raised(KeyError("parameters"))
     ELSE IF p.regex.t = "absent" THEN Raised(KeyError("regex"))
     ELSE IF IsEmailPattern(p.regex.s)
     THEN IF sel.kind = "KeyError" THEN Raised(KeyError(MissingName(frame, exp.column)))
          \* .str exists on a Series of strings only
          ELSE IF sel.kind = "DataFrame" THEN Raised(AttributeError("str"))
          ELSE IF sel.cols[1].dtype # "object" THEN Raised(AttributeError("str"))
          ELSE Computed(Result(exp.name.v,
                               PyBool(matches = frame.nrows),
                               Text("{} valid emails out of {}", <<matches, frame.nrows>>,
                                    <<>>, <<>>),
                               Text("Column {} should match email pattern", <<>>,
                                    exp.column.names, <<>>)))
     ELSE Computed(Result(exp.name.v, "True",
                          Text("Pattern check passed", <<>>, <<>>, <<>>),
                          Text("Column {} regex validation", <<>>, exp.column.names, <<>>)))

\* Bounds are ints here: the values YAML gives a numeric range.
ExpectColumnValuesToBeBetween(frame, exp) ==
  LET p == exp.parameters
      sel == GetItem(frame, exp.column)
  IN IF exp.column.t = "absent" THEN Raised(KeyError("column"))
     ELSE IF p.t = "absent" THEN Raised(KeyError("parameters"))
     ELSE IF p.min_value.t = "absent" THEN Raised(KeyError("min_value"))
     ELSE IF p.max_value.t = "absent" THEN Raised(KeyError("max_value"))
     ELSE IF sel.kind = "KeyError" THEN Raised(KeyError(MissingName(frame, exp.column)))
     ELSE IF p.min_value.t # "int" \/ p.max_value.t # "int" THEN Raised(TypeError)
     ELSE IF \E i \in 1..Len(sel.cols) : ~CanCompare(sel.cols[i]) THEN Raised(TypeError)
     ELSE Computed(Result(exp.name.v,
                          \* on a DataFrame .all() is a Series, one bool per column
                          IF sel.kind = "Series"
                          THEN PyBool(InRange(sel.cols[1], p.min_value.n, p.max_value.n))
                          ELSE "Series",
                          Text("Min: {}, Max: {}", <<>>, <<>>,
                               Concat([i \in 1..Len(sel.cols) |->
                                         <<SeriesMin(sel.cols[i]), SeriesMax(sel.cols[i])>>])),
                          Text("Column {} values should be between {} and {}",
                               <<p.min_value.n, p.max_value.n>>, exp.column.names, <<>>)))

ExpectColumnValuesToBeInSet(frame, exp) ==
  LET p == exp.parameters
      sel == GetItem(frame, exp.column)
  IN IF exp.column.t = "absent" THEN Raised(KeyError("column"))
     ELSE IF p.t = "absent" THEN Raised(KeyError("parameters"))
     ELSE IF p.value_set.t = "absent" THEN Raised(KeyError("value_set"))
     ELSE IF sel.kind = "KeyError" THEN Raised(KeyError(MissingName(frame, exp.column)))
     \* a DataFrame has no unique()
     ELSE IF sel.kind = "DataFrame" THEN Raised(AttributeError("unique"))
     ELSE Computed(Result(exp.name.v,
                          PyBool(AllIn(sel.cols[1], p.value_set.vals)),
                          Text("list", <<>>, <<>>, UniqueList(sel.cols[1].vals)),
                          Text("Column {} values should be in {}", <<>>,
                               exp.column.names, p.value_set.vals)))

\* Faulty variant: the words looked for in the type name as written
IsTemporalTypeAsWritten(expected_type) ==
  \/ Contains(<<"t", "i", "m", "e", "s", "t", "a", "m", "p">>, expected_type)
  \/ Contains(<<"d", "a", "t", "e">>, expected_type)

\* 'timestamp' in expected_type.lower() or 'date' in expected_type.lower()
IsTemporalType(expected_type) ==
  \/ Contains(<<"t", "i", "m", "e", "s", "t", "a", "m", "p">>, Lower(expected_type))
  \/ Contains(<<"d", "a", "t", "e">>, Lower(expected_type))

ExpectColumnValuesToBeOfType(frame, exp) ==
  LET p == exp.parameters
      sel == GetItem(frame, exp.column)
  IN IF exp.column.t = "absent" THEN Raised(KeyError("column"))
     ELSE IF p.t = "absent" THEN Raised(KeyError("parameters"))
     ELSE IF p.type_.t = "absent" THEN Raised(KeyError("type_"))
     \* df[column] is read for the temporal check and again for observed_value
     ELSE IF sel.kind = "KeyError" THEN Raised(KeyError(MissingName(frame, exp.column)))
     \* a DataFrame has no dtype
     ELSE IF sel.kind = "DataFrame" THEN Raised(AttributeError("dtype"))
     ELSE Computed(Result(exp.name.v,
                          IF IsTemporalType(p.type_.s) THEN PyBool(IsDatetime(sel.cols[1]))
                          ELSE "True",
                          Text("{}", <<>>, <<sel.cols[1].dtype>>, <<>>),
                          Text("Column {} should be of type {}", <<>>,
                               exp.column.names, <<>>)))

\* Faulty variant: a rule of an unknown kind reported as failed
NotImplementedFails(exp) ==
  Computed(Result(exp.name.v, "False",
                  Text("Skipped", <<>>, <<>>, <<>>),
                  Text("Expectation {} not implemented in demo", <<>>, <<exp.name.v>>, <<>>)))

\* The else branch
NotImplemented(exp) ==
  Computed(Result(exp.name.v, "True",
                  Text("Skipped", <<>>, <<>>, <<>>),
                  Text("Expectation {} not implemented in demo", <<>>, <<exp.name.v>>, <<>>)))

\* The if/elif chain on exp_name
Dispatch(frame, exp) ==
  CASE exp.name.v = "expect_table_row_count_to_be_between" ->
         ExpectTableRowCountToBeBetween(frame, exp)
    [] exp.name.v = "expect_table_columns_to_match_ordered_list" ->
         ExpectTableColumnsToMatchOrderedList(frame, exp)
    [] exp.name.v = "expect_column_values_to_not_be_null" ->
         ExpectColumnValuesToNotBeNull(frame, exp)
    [] exp.name.v = "expect_column_values_to_be_unique" ->
         ExpectColumnValuesToBeUnique(frame, exp)
    [] exp.name.v = "expect_column_values_to_match_regex" ->
         ExpectColumnValuesToMatchRegex(frame, exp)
    [] exp.name.v = "expect_column_values_to_be_between" ->
         ExpectColumnValuesToBeBetween(frame, exp)
    [] exp.name.v = "expect_column_values_to_be_in_set" ->
         ExpectColumnValuesToBeInSet(frame, exp)
    [] exp.name.v = "expect_column_values_to_be_of_type" ->
         ExpectColumnValuesToBeOfType(frame, exp)
    [] OTHER -> NotImplemented(exp)

\* The except clause's result dict
ErrorResult(exp, e) ==
  Result(exp.name.v, "False",
         Text("Error: {}", <<>>, <<e.type, e.arg>>, <<>>),
         Text("Failed to run expectation {}", <<>>, <<exp.name.v>>, <<>>))

\* The status line after results.append(result) takes the truth value of
\* result['success']; a Series has none.
StatusLine(result) == IF result.success = "Series" THEN ValueError ELSE NoExc

\* The exception one iteration raises inside its try block, NoExc if none
ExceptionIn(frame, exp) ==
  LET o == Dispatch(frame, exp)
  IN IF o.exc # NoExc THEN o.exc ELSE StatusLine(o.result)

\* The results one iteration appends: the branch's result when the branch
\* completes, and the except clause's result when anything in the try block
\* raised, the status line after the append included.
Appended(frame, exp) ==
  LET o == Dispatch(frame, exp)
  IN (IF o.exc = NoExc THEN <<o.result>> ELSE <<>>)
     \o (IF ExceptionIn(frame, exp) # NoExc
         THEN <<ErrorResult(exp, ExceptionIn(frame, exp))>> ELSE <<>>)

\* Faulty variant: exp['parameters'] read before the try block as well
EscapesWithoutParameters(exp) == exp.name.t = "absent" \/ exp.parameters.t = "absent"

\* exp['name'] is read before the try block: a rule without it raises
\* KeyError out of the call.
Escapes(exp) == exp.name.t = "absent"

-----------------------------------------------------------------------------
(* The call: a loop over expectations_config *)

\* Faulty variant: the parameters popped off the rule while it is evaluated
EvaluatePopping ==
  /\ pc = "loop"
  /\ idx <= Len(expectations_config)
  /\ ~Escapes(expectations_config[idx])
  /\ results' = results \o Appended(df, expectations_config[idx])
  /\ idx' = idx + 1
  /\ expectations_config' = [expectations_config EXCEPT ![idx].parameters = NoParameters]
  /\ UNCHANGED <<df, table_name, pc, runner, cli, loader, logging>>

\* One iteration of the for loop on a rule that has a name: the try block
\* and, if it raised, the except clause.
Evaluate ==
  /\ pc = "loop"
  /\ idx <= Len(expectations_config)
  /\ ~Escapes(expectations_config[idx])
  /\ results' = results \o Appended(df, expectations_config[idx])
  /\ idx' = idx + 1
  /\ UNCHANGED <<df, table_name, expectations_config, pc, runner, cli, loader, logging>>

\* exp['name'] raises KeyError outside the try block: the call ends with it.
RaiseKeyError ==
  /\ pc = "loop"
  /\ idx <= Len(expectations_config)
  /\ Escapes(expectations_config[idx])
  /\ pc' = "raised"
  /\ UNCHANGED <<df, table_name, expectations_config, results, idx, runner, cli, loader, logging>>

\* return results
Return ==
  /\ pc = "loop"
  /\ idx > Len(expectations_config)
  /\ pc' = "returned"
  /\ UNCHANGED <<df, table_name, expectations_config, results, idx, runner, cli, loader, logging>>

Next == Evaluate \/ RaiseKeyError \/ Return

Log(text, names) == [text |-> text, names |-> names]

Services(init, adls, suiteFails, checkpointFails, runs, uploadFails, docs) ==
  [initialize |-> init, adls_gen2 |-> adls, suite_fails |-> suiteFails,
   checkpoint_fails |-> checkpointFails, runs |-> runs, upload_fails |-> uploadFails,
   docs |-> docs]

\* main.py is not running; the process has the environment env
NoCliOn(env) ==
  /\ argv = <<>>
  /\ environ = env
  /\ table_configs = <<>>
  /\ checkpoints_config = <<>>
  /\ services = Services(TRUE, FALSE, {}, {}, <<>>, 0, TRUE)
  /\ gx_runner = "None"
  /\ adls_client = "None"
  /\ expectation_suites = {}
  /\ checkpoints = {}
  /\ validation_results = <<>>
  /\ self_validation_results = <<>>
  /\ uploads = <<>>
  /\ trace = <<>>
  /\ raised = ""
  /\ step = "none"
  /\ status = <<>>
  /\ logged = Log("", <<>>)

NoCli == NoCliOn(<<>>)

\* DQYamlParser.load_config is not running
NoLoader ==
  /\ file = [exists |-> FALSE, text |-> <<>>, valid |-> FALSE]
  /\ yaml_content = <<>>
  /\ env_pos = 0
  /\ config = [raised |-> "", text |-> <<>>]
  /\ load_pc = "none"

\* No logger has been set up
NoLogging ==
  /\ loggers = [n \in {} |-> 0]
  /\ calls = 0
  /\ returned = ""

\* main() is not running: the call was made directly
NoMain ==
  /\ tests = <<>>
  /\ test_results = <<>>
  /\ overall_success = "unset"
  /\ exit_code = <<>>
  /\ main_pc = "none"

\* The state at the head of the loop of a call on (frame, rules)
InitOn(frames, ruleLists) ==
  /\ df \in frames
  /\ table_name = "test1"
  /\ expectations_config \in ruleLists
  /\ results = <<>>
  /\ idx = 1
  /\ pc = "loop"
  /\ NoMain
  /\ NoCli
  /\ NoLoader
  /\ NoLogging

RuleLists(rules) == UNION { [1..n -> rules] : n \in 0..MaxRules }

-----------------------------------------------------------------------------
(* main(): one call per test table, then the summary and the exit code.     *)
(* tests holds what main() hands to its calls: test1 and test2, each a      *)
(* table and its expectations; test_results holds what the calls returned.  *)

Test(label, frame, expectations) ==
  [table_name |-> label, df |-> frame, expectations |-> expectations]

\* Faulty variant: a result list that outlives the call
EnterKeepingResults(test) ==
  /\ df' = test.df
  /\ table_name' = test.table_name
  /\ expectations_config' = test.expectations
  /\ results' = results
  /\ idx' = 1
  /\ pc' = "loop"

\* Entry of run_expectations_manually: the parameters bound, results = []
Enter(test) ==
  /\ df' = test.df
  /\ table_name' = test.table_name
  /\ expectations_config' = test.expectations
  /\ results' = <<>>
  /\ idx' = 1
  /\ pc' = "loop"

\* main() calls run_expectations_manually on the next test table
Call ==
  /\ main_pc = "main"
  /\ pc \in {"idle", "assigned"}
  /\ Len(test_results) < Len(tests)
  /\ Enter(tests[Len(test_results) + 1])
  /\ UNCHANGED <<runner, cli, loader, logging>>

\* test1_results = ..., test2_results = ...: the returned list is kept
Assign ==
  /\ main_pc = "main"
  /\ pc = "returned"
  /\ test_results' = Append(test_results, results)
  /\ pc' = "assigned"
  /\ UNCHANGED <<df, table_name, expectations_config, results, idx>>
  /\ UNCHANGED <<tests, overall_success, exit_code, main_pc, cli, loader, logging>>

\* sum(1 for r in test_results if r['success'])
Passed(rs) == Cardinality({i \in 1..Len(rs) : rs[i].success = "True"})

\* The generator's condition takes the truth value of every success
HasNoTruthValue(rs) == \E i \in 1..Len(rs) : rs[i].success = "Series"

\* Faulty variant: one table passing is enough
OverallSuccessEither(test1_results, test2_results) ==
  \/ Passed(test1_results) = Len(test1_results)
  \/ Passed(test2_results) = Len(test2_results)

\* (test1_passed == test1_total) and (test2_passed == test2_total)
OverallSuccess(test1_results, test2_results) ==
  /\ Passed(test1_results) = Len(test1_results)
  /\ Passed(test2_results) = Len(test2_results)

\* The summary, return overall_success and exit(0 if success else 1); a
\* success without a truth value raises ValueError out of main(), and the
\* interpreter ends with code 1.
Summary ==
  /\ main_pc = "main"
  /\ pc = "assigned"
  /\ Len(test_results) = Len(tests)
  /\ IF HasNoTruthValue(test_results[1]) \/ HasNoTruthValue(test_results[2])
     THEN /\ exit_code' = <<1>>
          /\ UNCHANGED overall_success
     ELSE /\ overall_success' = PyBool(OverallSuccess(test_results[1], test_results[2]))
          /\ exit_code' = IF OverallSuccess(test_results[1], test_results[2])
                          THEN <<0>> ELSE <<1>>
  /\ main_pc' = "exited"
  /\ UNCHANGED <<call, tests, test_results, cli, loader, logging>>

\* The KeyError of a nameless rule leaves the call and main(): the
\* interpreter prints the traceback and ends with code 1.
Traceback ==
  /\ main_pc = "main"
  /\ pc = "raised"
  /\ exit_code' = <<1>>
  /\ main_pc' = "exited"
  /\ UNCHANGED <<call, tests, test_results, overall_success, cli, loader, logging>>

NextMain == Call \/ Evaluate \/ RaiseKeyError \/ Return \/ Assign \/ Summary \/ Traceback

\* main() before its first call, test1 and test2 drawn from the inputs
InitMain(frames, ruleLists) ==
  /\ \E f1, f2 \in frames : \E e1, e2 \in ruleLists :
       tests = <<Test("test1", f1, e1), Test("test2", f2, e2)>>
  /\ test_results = <<>>
  /\ overall_success = "unset"
  /\ exit_code = <<>>
  /\ main_pc = "main"
  /\ df = DataFrame(0, <<>>)
  /\ table_name = ""
  /\ expectations_config = <<>>
  /\ results = <<>>
  /\ idx = 1
  /\ pc = "idle"
  /\ NoCli
  /\ NoLoader
  /\ NoLogging

-----------------------------------------------------------------------------
(* main.py: the command line, main() for all tables and                     *)
(* run_specific_table() for one, on top of GXRunner.                        *)
(*   argv               the arguments after the script name                 *)
(*   environ            os.environ, a sequence of [key, value] entries      *)
(*   table_configs      the 'tables' entries of the configuration           *)
(*   checkpoints_config the 'checkpoints' entries of the configuration      *)
(*   services           what the libraries and the services answer in this  *)
(*                      run: whether initialize() succeeds, whether the     *)
(*                      configuration has an 'adls_gen2' storage, the       *)
(*                      tables whose suite and the checkpoints whose        *)
(*                      creation fails, the outcome of checkpoint.run() per *)
(*                      table, the upload that fails (0 for none), whether  *)
(*                      the reports can be written                          *)
(* status is empty until the process ends and then holds its exit code;     *)
(* logged is the message main.py logs on its way out; trace lists the steps *)
(* entered so far; uploads lists the blobs written by store_results.        *)

\* A piece of text: literal characters or a placeholder ${name}
Lit(s) == [ph |-> FALSE, s |-> s]
Ref(name) == [ph |-> TRUE, s |-> name]

EnvEntry(key, value) == [key |-> key, value |-> value]

\* os.getenv(var) is truthy: the variable is set to a non-empty string
IsSet(env, var) == \E i \in 1..Len(env) : env[i].key = var /\ env[i].value # <<>>

\* required_env_vars
RequiredVars ==
  << "DATABRICKS_TOKEN", "DATABRICKS_SERVER_HOSTNAME", "DATABRICKS_HTTP_PATH",
     "ADLS_ACCOUNT_NAME", "ADLS_ACCOUNT_KEY" >>

\* Faulty variant: only the variables that are not set at all
MissingVarsUnsetOnly(env) ==
  LET Unset(var) == \A i \in 1..Len(env) : env[i].key # var
  IN SelectSeq(RequiredVars, Unset)

\* missing_vars of _validate_environment(), in the order of the list
MissingVars(env) ==
  LET Missing(var) == ~IsSet(env, var)
  IN SelectSeq(RequiredVars, Missing)

\* A 'tables' entry and a 'checkpoints' entry; a key may be absent
TableConfig(name) == [name |-> name]
CheckpointConfig(name, table) == [name |-> name, table |-> table]

\* f"{table_name}_checkpoint"
CheckpointName(tname) == tname \o "_checkpoint"

\* DQYamlParser.create_expectation_suites: the table names that got a suite.
\* table_config['name'] is read outside the inner try block, so an entry
\* without a name ends the call with ValidationError; a failure inside the
\* block (fails holds the positions of the entries it happens to) skips
\* that entry only.
CreateExpectationSuites(tables, fails) ==
  IF \E i \in 1..Len(tables) : tables[i].name.t = "absent"
  THEN [raised |-> TRUE, suites |-> {}]
  ELSE [raised |-> FALSE,
        suites |-> {tables[i].name.v : i \in (1..Len(tables)) \ fails}]

\* Faulty variant: the first checkpoint that cannot be created ends the loop
CreateCheckpointsUntilFailure(cfgs, suites, fails) ==
  LET Before(i) == \A j \in fails : i < j
  IN IF \E i \in 1..Len(cfgs) : cfgs[i].name.t = "absent" \/ cfgs[i].table.t = "absent"
     THEN [raised |-> TRUE, checkpoints |-> {}]
     ELSE [raised |-> FALSE,
           checkpoints |-> {cfgs[i].name.v :
                              i \in {j \in 1..Len(cfgs) :
                                       cfgs[j].table.v \in suites /\ Before(j)}}]

\* DQYamlParser.create_checkpoints: the names of the checkpoints it returns.
\* checkpoint_config['name'] and ['table'] are read outside the inner try
\* block; an entry whose table has no suite is skipped, and so is one whose
\* creation fails.
CreateCheckpoints(cfgs, suites, fails) ==
  IF \E i \in 1..Len(cfgs) : cfgs[i].name.t = "absent" \/ cfgs[i].table.t = "absent"
  THEN [raised |-> TRUE, checkpoints |-> {}]
  ELSE [raised |-> FALSE,
        checkpoints |-> {cfgs[i].name.v :
                           i \in {j \in 1..Len(cfgs) :
                                    cfgs[j].table.v \in suites /\ j \notin fails}}]

\* GXRunner.setup_expectations and setup_checkpoints, one after the other:
\* either raises ValidationError
Setup(tables, cfgs, world) ==
  LET made == CreateExpectationSuites(tables, world.suite_fails)
      cps == CreateCheckpoints(cfgs, made.suites, world.checkpoint_fails)
  IN [raised |-> made.raised \/ cps.raised,
      suites |-> made.suites,
      checkpoints |-> IF made.raised THEN {} ELSE cps.checkpoints]

TableResult(tname, success, error, timestamp) ==
  [table_name |-> tname, success |-> success, error |-> error, timestamp |-> timestamp]

\* GXRunner.run_validation: checkpoint.run() raises or returns (run is its
\* outcome); when it returned, the result dict reads run_identifier, a name
\* bound nowhere, and the NameError is re-raised as ValidationError like
\* any other exception.  Nothing is appended to self.validation_results.
RunValidation(tname, run, now) ==
  IF run = "raised"
  THEN [raised |-> TRUE, error |-> "ValidationError: checkpoint",
        result |-> TableResult(tname, "False", "", now)]
  ELSE [raised |-> TRUE, error |-> "ValidationError: run_identifier",
        result |-> TableResult(tname, "False", "", now)]

\* Faulty variant: a table whose validation raised is left out of the list
AllResultsWithoutErrors(tcs, cps, run) ==
  LET HasCheckpoint(t) ==
        CheckpointName(t.name.v) \in cps /\ ~RunValidation(t.name.v, run[t.name.v], 0).raised
      validated == SelectSeq(tcs, HasCheckpoint)
  IN [i \in 1..Len(validated) |->
        RunValidation(validated[i].name.v, run[validated[i].name.v], i).result]

\* The loop of GXRunner.run_all_validations: one result per table that has
\* a checkpoint, an error result when run_validation raised; the timestamps
\* are the readings of a clock that ticks once per result
AllResults(tcs, cps, run) ==
  LET HasCheckpoint(t) == CheckpointName(t.name.v) \in cps
      validated == SelectSeq(tcs, HasCheckpoint)
  IN [i \in 1..Len(validated) |->
        LET out == RunValidation(validated[i].name.v, run[validated[i].name.v], i)
        IN IF out.raised THEN TableResult(validated[i].name.v, "False", out.error, i)
           ELSE out.result]

\* The results run_validation appended to self.validation_results
Appendable(tcs, cps, run) ==
  LET HasCheckpoint(t) ==
        CheckpointName(t.name.v) \in cps /\ ~RunValidation(t.name.v, run[t.name.v], 0).raised
      validated == SelectSeq(tcs, HasCheckpoint)
  IN [i \in 1..Len(validated) |->
        RunValidation(validated[i].name.v, run[validated[i].name.v], i).result]

\* result_path of store_results: validation_results/<table_name>/<timestamp>.json
ResultPath(result) == <<"validation_results", result.table_name, result.timestamp>>

\* summary_path of store_results
SummaryPath == <<"validation_results", "summary">>

\* Faulty variant: the summary is written even after a failed upload
StoreWithSummary(client, res, failing) ==
  LET paths == [i \in 1..Len(res) |-> ResultPath(res[i])]
  IN IF client = "None" THEN [raised |-> FALSE, uploads |-> <<>>]
     ELSE IF failing \in 1..(Len(res) + 1)
     THEN [raised |-> TRUE,
           uploads |-> Append(SubSeq(paths, 1, failing - 1), SummaryPath)]
     ELSE [raised |-> FALSE, uploads |-> Append(paths, SummaryPath)]

\* GXRunner.store_results: nothing without a client; otherwise one upload
\* per result in list order and then the summary.  ADLSClient.upload_json
\* raises StorageError when an upload fails (failing is its position among
\* the uploads of the call, 0 when none fails) and the call ends there.
Store(client, res, failing) ==
  LET paths == Append([i \in 1..Len(res) |-> ResultPath(res[i])], SummaryPath)
  IN IF client = "None" THEN [raised |-> FALSE, uploads |-> <<>>]
     ELSE IF failing \in 1..Len(paths)
     THEN [raised |-> TRUE, uploads |-> SubSeq(paths, 1, failing - 1)]
     ELSE [raised |-> FALSE, uploads |-> paths]

\* The success rates computed for a list of results; "ZeroDivisionError"
\* where the division is not guarded.
Successful(res) == Cardinality({i \in 1..Len(res) : res[i].success = "True"})

\* GXRunner._create_summary, DocumentationGenerator._create_summary_data and
\* main._print_summary guard the division by the number of tables
GuardedRate(res) ==
  IF Len(res) > 0 THEN [raised |-> FALSE, rate |-> (Successful(res) * 100) \div Len(res)]
  ELSE [raised |-> FALSE, rate |-> 0]

\* DocumentationGenerator._create_html_report divides without a guard
HtmlRate(res) ==
  IF Len(res) = 0 THEN [raised |-> TRUE, rate |-> 0]
  ELSE [raised |-> FALSE, rate |-> (Successful(res) * 100) \div Len(res)]

\* GXRunner.generate_documentation: generate_html_report and then
\* generate_summary_report; any failure leaves as StorageError
Documentation(res, writable) == [raised |-> HtmlRate(res).raised \/ ~writable]

IsTableRun == Len(argv) > 1 /\ argv[1] = "--table"

RunOutcomes == {"passed", "failed", "raised"}

\* Faulty variant: a storage error fails the run like the others
ReturnOfStrict(type) ==
  IF type = "" THEN <<0>> ELSE <<1>>

\* What main() returns when its try block ended with an exception of this
\* class ("" when it ended normally): the except clauses and the last line
ReturnOf(type) ==
  CASE type = "ConfigurationError" -> <<1>>
    [] type = "ValidationError" -> <<1>>
    [] type = "StorageError" -> <<0>>
    [] type = "" -> <<0>>
    [] OTHER -> <<1>>

\* Faulty variant: cleanup whether or not a runner was constructed
FinallyAlways(tr, constructed) == Append(tr, "cleanup")

\* The finally block of main(): cleanup when gx_runner is set
Finally(tr, constructed) ==
  IF constructed # "None" THEN Append(tr, "cleanup") ELSE tr

\* The text main() or run_specific_table() logs for a caught exception
Caught(type) ==
  IF IsTableRun THEN "Error validating table"
  ELSE CASE type = "ConfigurationError" -> "Configuration error"
         [] type = "ValidationError" -> "Validation error"
         [] type = "StorageError" -> "Storage error"
         [] OTHER -> "Unexpected error"

\* An exception of this class leaves the try block: main() maps it to its
\* return value and runs the finally block, run_specific_table() returns 1
Raise(type, names, tr, constructed) ==
  /\ raised' = type
  /\ status' = IF IsTableRun THEN <<1>> ELSE ReturnOf(type)
  /\ logged' = Log(Caught(type), names)
  /\ trace' = IF IsTableRun THEN tr ELSE Finally(tr, constructed)
  /\ step' = "exited"

\* The function returns n without an exception having been caught
ReturnValue(n, message, tr) ==
  /\ status' = <<n>>
  /\ logged' = Log(message, <<>>)
  /\ trace' = tr
  /\ step' = "exited"
  /\ UNCHANGED raised

Continue(next, tr) ==
  /\ step' = next
  /\ trace' = tr
  /\ UNCHANGED <<status, logged, raised>>

inputs == <<argv, environ, table_configs, checkpoints_config, services>>

\* if __name__ == "__main__"
EntryPoint ==
  /\ step = "start"
  /\ IF argv = <<>> \/ IsTableRun
     THEN Continue("env", trace)
     ELSE ReturnValue(1, "Usage: python main.py [--table TABLE_NAME]", trace)
  /\ UNCHANGED <<inputs, gx_runner, adls_client, expectation_suites, checkpoints,
                 validation_results, self_validation_results, uploads>>
  /\ UNCHANGED <<call, runner, loader, logging>>

\* _validate_environment()
ValidateEnvironment ==
  /\ step = "env"
  /\ LET missing_vars == MissingVars(environ)
         tr == Append(trace, "validate_environment")
     IN IF missing_vars # <<>>
        THEN Raise("ConfigurationError", missing_vars, tr, gx_runner)
        ELSE Continue("init", tr)
  /\ UNCHANGED <<inputs, gx_runner, adls_client, expectation_suites, checkpoints,
                 validation_results, self_validation_results, uploads>>
  /\ UNCHANGED <<call, runner, loader, logging>>

\* gx_runner = GXRunner(config_path); gx_runner.initialize()
Initialize ==
  /\ step = "init"
  /\ gx_runner' = "GXRunner"
  /\ LET tr == Append(trace, "initialize")
     IN IF services.initialize
        THEN /\ adls_client' = IF services.adls_gen2 THEN "ADLSClient" ELSE "None"
             /\ Continue(IF IsTableRun THEN "table" ELSE "validate", tr)
        ELSE /\ Raise("ConfigurationError", <<>>, tr, "GXRunner")
             /\ UNCHANGED adls_client
  /\ UNCHANGED <<inputs, expectation_suites, checkpoints,
                 validation_results, self_validation_results, uploads>>
  /\ UNCHANGED <<call, runner, loader, logging>>

\* validation_results = gx_runner.run_all_validations()
RunAllValidations ==
  /\ step = "validate"
  /\ LET made == Setup(table_configs, checkpoints_config, services)
         tr == Append(trace, "run_all_validations")
     IN /\ expectation_suites' = made.suites
        /\ checkpoints' = made.checkpoints
        /\ IF made.raised
           THEN /\ Raise("ValidationError", <<>>, tr, gx_runner)
                /\ UNCHANGED <<validation_results, self_validation_results>>
           ELSE /\ validation_results' =
                     AllResults(table_configs, made.checkpoints, services.runs)
                /\ self_validation_results' =
                     Appendable(table_configs, made.checkpoints, services.runs)
                /\ Continue("store", tr)
  /\ UNCHANGED <<inputs, gx_runner, adls_client, uploads>>
  /\ UNCHANGED <<call, runner, loader, logging>>

\* gx_runner.store_results(validation_results)
StoreResults ==
  /\ step = "store"
  /\ LET out == Store(adls_client, validation_results, services.upload_fails)
         tr == Append(trace, "store_results")
     IN /\ uploads' = out.uploads
        /\ IF out.raised THEN Raise("StorageError", <<>>, tr, gx_runner)
           ELSE Continue("docs", tr)
  /\ UNCHANGED <<inputs, gx_runner, adls_client, expectation_suites, checkpoints,
                 validation_results, self_validation_results>>
  /\ UNCHANGED <<call, runner, loader, logging>>

\* gx_runner.generate_documentation(validation_results)
GenerateDocumentation ==
  /\ step = "docs"
  /\ LET out == Documentation(validation_results, services.docs)
         tr == Append(trace, "generate_documentation")
     IN IF out.raised THEN Raise("StorageError", <<>>, tr, gx_runner)
        ELSE Continue("summary", tr)
  /\ UNCHANGED <<inputs, gx_runner, adls_client, expectation_suites, checkpoints,
                 validation_results, self_validation_results, uploads>>
  /\ UNCHANGED <<call, runner, loader, logging>>

\* _print_summary(validation_results), the last statement of the try block,
\* then the finally block and return 0
PrintSummary ==
  /\ step = "summary"
  /\ ~GuardedRate(validation_results).raised
  /\ ReturnValue(ReturnOf("")[1], "Data Quality Validation completed successfully!",
                 Finally(Append(trace, "print_summary"), gx_runner))
  /\ UNCHANGED <<inputs, gx_runner, adls_client, expectation_suites, checkpoints,
                 validation_results, self_validation_results, uploads>>
  /\ UNCHANGED <<call, runner, loader, logging>>

\* run_specific_table(): setup_expectations, setup_checkpoints and the
\* lookup of the table's checkpoint
SetupSpecificTable ==
  /\ step = "table"
  /\ LET made == Setup(table_configs, checkpoints_config, services)
         tr == Append(trace, "setup")
     IN /\ expectation_suites' = made.suites
        /\ checkpoints' = made.checkpoints
        /\ IF made.raised THEN Raise("ValidationError", <<>>, tr, gx_runner)
           ELSE IF CheckpointName(argv[2]) \notin made.checkpoints
           THEN ReturnValue(1, "No checkpoint found for table", tr)
           ELSE Continue("run", tr)
  /\ UNCHANGED <<inputs, gx_runner, adls_client,
                 validation_results, self_validation_results, uploads>>
  /\ UNCHANGED <<call, runner, loader, logging>>

\* run_specific_table(): run_validation for the table, then store_results,
\* generate_documentation and _print_summary on the one result
RunSpecificTable ==
  /\ step = "run"
  /\ LET out == RunValidation(argv[2], services.runs[argv[2]], 1)
         tr == Append(trace, "run_validation")
         stored == Store(adls_client, <<out.result>>, services.upload_fails)
         docs == Documentation(<<out.result>>, services.docs)
     IN IF out.raised
        THEN /\ Raise("ValidationError", <<>>, tr, gx_runner)
             /\ UNCHANGED <<validation_results, self_validation_results, uploads>>
        ELSE /\ validation_results' = <<out.result>>
             /\ self_validation_results' = Append(self_validation_results, out.result)
             /\ uploads' = stored.uploads
             /\ IF stored.raised
                THEN Raise("StorageError", <<>>, Append(tr, "store_results"), gx_runner)
                ELSE IF docs.raised
                THEN Raise("StorageError", <<>>,
                           tr \o <<"store_results", "generate_documentation">>, gx_runner)
                ELSE ReturnValue(0, "Validation completed for table",
                                 tr \o <<"store_results", "generate_documentation",
                                         "print_summary">>)
  /\ UNCHANGED <<inputs, gx_runner, adls_client, expectation_suites, checkpoints>>
  /\ UNCHANGED <<call, runner, loader, logging>>

NextCli ==
  \/ EntryPoint
  \/ ValidateEnvironment
  \/ Initialize
  \/ RunAllValidations
  \/ StoreResults
  \/ GenerateDocumentation
  \/ PrintSummary
  \/ SetupSpecificTable
  \/ RunSpecificTable

\* No call of run_expectations_manually is under way
NoCall ==
  /\ df = DataFrame(0, <<>>)
  /\ table_name = ""
  /\ expectations_config = <<>>
  /\ results = <<>>
  /\ idx = 1
  /\ pc = "idle"

\* python main.py with the given arguments and environment, on a
\* configuration of the given tables and checkpoints, in a world that
\* answers as services says
InitCli(arguments, environments, tables, cfgs, worlds) ==
  /\ argv \in arguments
  /\ environ \in environments
  /\ table_configs \in tables
  /\ checkpoints_config \in cfgs
  /\ services \in worlds
  /\ gx_runner = "None"
  /\ adls_client = "None"
  /\ expectation_suites = {}
  /\ checkpoints = {}
  /\ validation_results = <<>>
  /\ self_validation_results = <<>>
  /\ uploads = <<>>
  /\ trace = <<>>
  /\ raised = ""
  /\ step = "start"
  /\ status = <<>>
  /\ logged = Log("", <<>>)
  /\ NoCall
  /\ NoMain
  /\ NoLoader
  /\ NoLogging

-----------------------------------------------------------------------------
(* DQYamlParser.load_config: the configuration file is read, the            *)
(* placeholders of the environment's variables are replaced, one variable   *)
(* after the other in the order of os.environ, and the text is parsed.      *)
(* A text is a sequence of pieces, each literal characters or a placeholder *)
(* ${name}; the literals hold no part of a placeholder.                     *)
(*   file          whether the file exists and can be read, its text, and   *)
(*                 whether yaml.safe_load accepts the text it is given      *)
(*   yaml_content  the local of that name                                   *)
(*   env_pos       the position of the loop in os.environ                   *)
(*   config        the outcome: the exception raised ("" for none) and the  *)
(*                 text that was parsed                                     *)

ConfigFile(exists, readable, text, valid) ==
  [exists |-> exists, readable |-> readable, text |-> text, valid |-> valid]

Loaded(text) == [raised |-> "", text |-> text]
ConfigurationError == [raised |-> "ConfigurationError", text |-> <<>>]

RECURSIVE Replace(_, _, _)
\* yaml_content.replace(f"${{{key}}}", value)
Replace(content, key, value) ==
  IF content = <<>> THEN <<>>
  ELSE (IF Head(content) = Ref(key) THEN value ELSE <<Head(content)>>)
       \o Replace(Tail(content), key, value)

\* os.path.exists, open and file.read(); a missing file raises
\* ConfigurationError inside the try block, an unreadable one OSError, and
\* the last except clause turns either into ConfigurationError
OpenConfig ==
  /\ load_pc = "open"
  /\ IF file.exists /\ file.readable
     THEN /\ yaml_content' = file.text
          /\ env_pos' = 1
          /\ load_pc' = "replace"
          /\ UNCHANGED config
     ELSE /\ config' = ConfigurationError
          /\ load_pc' = "done"
          /\ UNCHANGED <<yaml_content, env_pos>>
  /\ UNCHANGED file
  /\ UNCHANGED <<call, runner, cli, logging>>

\* One turn of the loop over os.environ.items()
ReplaceVariable ==
  /\ load_pc = "replace"
  /\ env_pos <= Len(environ)
  /\ yaml_content' = Replace(yaml_content, environ[env_pos].key, environ[env_pos].value)
  /\ env_pos' = env_pos + 1
  /\ UNCHANGED <<file, config, load_pc>>
  /\ UNCHANGED <<call, runner, cli, logging>>

\* self.config = yaml.safe_load(yaml_content); a YAMLError leaves as
\* ConfigurationError
SafeLoad ==
  /\ load_pc = "replace"
  /\ env_pos > Len(environ)
  /\ config' = IF file.valid THEN Loaded(yaml_content) ELSE ConfigurationError
  /\ load_pc' = "done"
  /\ UNCHANGED <<file, yaml_content, env_pos>>
  /\ UNCHANGED <<call, runner, cli, logging>>

NextLoader == OpenConfig \/ ReplaceVariable \/ SafeLoad

\* load_config is called on one of the files in a process that has one of
\* the environments
InitLoader(files, environments) ==
  /\ file \in files
  /\ yaml_content = <<>>
  /\ env_pos = 0
  /\ config = Loaded(<<>>)
  /\ load_pc = "open"
  /\ \E env \in environments : NoCliOn(env)
  /\ NoCall
  /\ NoMain
  /\ NoLogging

-----------------------------------------------------------------------------
(* utils/logger.py: setup_logger on the loggers of the logging module.      *)
(*   loggers   for each name the logger logging.getLogger returns: its      *)
(*             handlers in the order they were added and its level          *)
(*   calls     the number of calls made so far                              *)
(*   returned  the name of the logger the last call returned                *)

Logger(handlers, level) == [handlers |-> handlers, level |-> level]
Handler(kind, level) == [kind |-> kind, level |-> level]

\* getattr(logging, level.upper(), logging.INFO)
LogLevel(level) ==
  CASE level \in {"DEBUG", "debug"} -> "DEBUG"
    [] level \in {"INFO", "info"} -> "INFO"
    [] level \in {"ERROR", "error"} -> "ERROR"
    [] OTHER -> "INFO"

\* Faulty variant: handlers are added whether or not the logger has some
ConfigureAlways(logger, level, log_file, opens) ==
  Logger(logger.handlers
           \o <<Handler("console", LogLevel(level))>>
           \o (IF log_file # "" /\ opens THEN <<Handler("file", LogLevel(level))>>
               ELSE <<>>),
         LogLevel(level))

\* The body of setup_logger on the logger it looked up: nothing when the
\* logger has handlers; otherwise the level is set, a console handler is
\* added, and a file handler when a log file is given and can be opened
Configure(logger, level, log_file, opens) ==
  IF logger.handlers # <<>> THEN logger
  ELSE Logger(<<Handler("console", LogLevel(level))>>
                \o (IF log_file # "" /\ opens THEN <<Handler("file", LogLevel(level))>>
                    ELSE <<>>),
              LogLevel(level))

\* setup_logger(name, level, log_file)
SetupLogger(name, level, log_file, opens) ==
  /\ calls < MaxCalls
  /\ loggers' = [loggers EXCEPT ![name] = Configure(loggers[name], level, log_file, opens)]
  /\ calls' = calls + 1
  /\ returned' = name
  /\ UNCHANGED <<call, runner, cli, loader>>

LoggerNames == {"__main__", "src.gx_runner"}
Levels == {"DEBUG", "info", "error", "verbose"}
LogFiles == {"", "logs/dq.log"}

NextLogger ==
  \E name \in LoggerNames, level \in Levels, log_file \in LogFiles, opens \in BOOLEAN :
    SetupLogger(name, level, log_file, opens)

\* No logger has been configured yet
InitLogger ==
  /\ loggers = [name \in LoggerNames |-> Logger(<<>>, "NOTSET")]
  /\ calls = 0
  /\ returned = ""
  /\ NoCall
  /\ NoMain
  /\ NoCli
  /\ NoLoader

SpecLogger == InitLogger /\ [][NextLogger]_vars

-----------------------------------------------------------------------------
(* Inputs of the batch specification: rules of every outcome (a result, a   *)
(* fault of each cause, a missing name) on tables of every shape.           *)

Nameless == Rule(NoName, NoColumn, NoParameters)
Range12 == Dict(IntBound(1), IntBound(2), NoNames, NoText, NoCells, NoText)

BatchRules ==
  { Nameless,
    Rule(Name("expect_foo_bar"), NoColumn, NoParameters),
    Rule(Name("expect_table_row_count_to_be_between"), NoColumn, Range12),
    Rule(Name("expect_table_row_count_to_be_between"), NoColumn, NoParameters),
    Rule(Name("expect_table_columns_to_match_ordered_list"), NoColumn,
         Dict(NoBound, NoBound, NameList(<<"id">>), NoText, NoCells, NoText)),
    Rule(Name("expect_column_values_to_not_be_null"), ColumnName("id"), NoParameters),
    Rule(Name("expect_column_values_to_not_be_null"), NoColumn, NoParameters),
    Rule(Name("expect_column_values_to_not_be_null"), ColumnName("nope"), NoParameters),
    Rule(Name("expect_column_values_to_not_be_null"), ColumnList(<<"id">>), NoParameters),
    Rule(Name("expect_column_values_to_be_unique"), ColumnName("id"), NoParameters),
    Rule(Name("expect_column_values_to_be_between"), ColumnName("id"), Range12) }

BatchDatasets ==
  WideDatasets
  \cup { d \in DeepDatasets : Len(d.columns) = 1 /\ d.columns[1].dtype = "object" }

Init == InitOn(BatchDatasets, RuleLists(BatchRules))

Spec == Init /\ [][Next]_vars

-----------------------------------------------------------------------------
(* Inputs of the specifications of single rule kinds.  Every one keeps the  *)
(* nameless rule, so that every way out of the loop stays reachable.        *)

EmailPattern == <<"e", "m", "a", "i", "l">>
OtherPattern == <<"^", "[", "A", "-", "Z", "]", "+", "$">>
TimestampType == <<"T", "i", "m", "e", "s", "t", "a", "m", "p", "T", "y", "p", "e">>
IntegerType == <<"I", "n", "t", "e", "g", "e", "r", "T", "y", "p", "e">>

Regex(rx) == Dict(NoBound, NoBound, NoNames, PyStr(rx), NoCells, NoText)
TypeIs(ty) == Dict(NoBound, NoBound, NoNames, NoText, NoCells, PyStr(ty))
ValueSet(vs) == Dict(NoBound, NoBound, NoNames, NoText, CellList(vs), NoText)
Bounds(mn, mx) == Dict(mn, mx, NoNames, NoText, NoCells, NoText)
ColumnListIs(ns) == Dict(NoBound, NoBound, NameList(ns), NoText, NoCells, NoText)

\* Every column-scoped kind, on a column the tables have ("id") and on one
\* none has ("nope")
ColumnScopedRules ==
  { Nameless }
  \cup { Rule(Name(n), ColumnName(c), NoParameters) :
           n \in { "expect_column_values_to_not_be_null",
                   "expect_column_values_to_be_unique" },
           c \in {"id", "nope"} }
  \cup { Rule(Name("expect_column_values_to_match_regex"), ColumnName(c), Regex(rx)) :
           c \in {"id", "nope"}, rx \in {EmailPattern, OtherPattern} }
  \cup { Rule(Name("expect_column_values_to_be_between"), ColumnName(c), Range12) :
           c \in {"id", "nope"} }
  \cup { Rule(Name("expect_column_values_to_be_in_set"), ColumnName(c),
              ValueSet(<<Num(1), Num(2)>>)) : c \in {"id", "nope"} }
  \cup { Rule(Name("expect_column_values_to_be_of_type"), ColumnName(c), TypeIs(ty)) :
           c \in {"id", "nope"}, ty \in {TimestampType, IntegerType} }

SpecColumnScoped ==
  InitOn(BatchDatasets, RuleLists(ColumnScopedRules)) /\ [][Next]_vars

\* Names outside the eight kinds, with and without the other keys
UnknownRules ==
  { Nameless,
    Rule(Name("expect_column_values_to_not_be_null"), ColumnName("id"), NoParameters) }
  \cup { Rule(Name(n), c, p) :
           n \in {"expect_foo_bar", "expect_column_values_to_be_null"},
           c \in {NoColumn, ColumnName("nope")},
           p \in {NoParameters, Range12} }

SpecUnknown == InitOn(Datasets, RuleLists(UnknownRules)) /\ [][Next]_vars

\* Row-count rules with bounds at, below and above the row counts explored
RowCountRules ==
  { Nameless,
    Rule(Name("expect_table_row_count_to_be_between"), NoColumn, NoParameters) }
  \cup { Rule(Name("expect_table_row_count_to_be_between"), NoColumn, Bounds(mn, mx)) :
           mn \in {IntBound(1), IntBound(2), StrBound},
           mx \in {IntBound(1), IntBound(2), NoBound, StrBound} }

SpecRowCount == InitOn(WideDatasets, RuleLists(RowCountRules)) /\ [][Next]_vars

\* Column-list rules expecting every shape
ColumnsMatchRules ==
  { Nameless,
    Rule(Name("expect_table_columns_to_match_ordered_list"), NoColumn, EmptyDict) }
  \cup { Rule(Name("expect_table_columns_to_match_ordered_list"), NoColumn,
              ColumnListIs(sh)) : sh \in Shapes }

SpecColumnsMatch == InitOn(WideDatasets, RuleLists(ColumnsMatchRules)) /\ [][Next]_vars

\* Not-null and uniqueness rules on every content of the column
NullUniqueRules ==
  { Nameless }
  \cup { Rule(Name(n), c, NoParameters) :
           n \in { "expect_column_values_to_not_be_null",
                   "expect_column_values_to_be_unique" },
           c \in {NoColumn, ColumnName("id"), ColumnName("nope")} }

SpecNullUnique == InitOn(Datasets, RuleLists(NullUniqueRules)) /\ [][Next]_vars

\* Regex rules with patterns that name e-mail in either case, hold an '@',
\* or do neither
MixedCaseEmailPattern == <<"^", "E", "m", "a", "i", "l">>
AtPattern == <<"^", ".", "+", "@">>

RegexRules ==
  { Nameless,
    Rule(Name("expect_column_values_to_match_regex"), ColumnName("id"), EmptyDict) }
  \cup { Rule(Name("expect_column_values_to_match_regex"), ColumnName(c), Regex(rx)) :
           c \in {"id", "nope"},
           rx \in {EmailPattern, MixedCaseEmailPattern, AtPattern, OtherPattern} }

SpecRegex == InitOn(DeepDatasets, RuleLists(RegexRules)) /\ [][Next]_vars

\* Range rules with every pair of bounds among the values the columns hold
BetweenRules ==
  { Nameless,
    Rule(Name("expect_column_values_to_be_between"), ColumnName("id"),
         Bounds(IntBound(1), NoBound)) }
  \cup { Rule(Name("expect_column_values_to_be_between"), ColumnName(c),
              Bounds(IntBound(mn), IntBound(mx))) :
           c \in {"id", "nope"}, mn \in {1, 2}, mx \in {1, 2} }

SpecBetween == InitOn(DeepDatasets, RuleLists(BetweenRules)) /\ [][Next]_vars

\* Membership rules with sets of numbers and of strings, one of them the
\* upper-case spelling of a string the columns hold
UpperPlainStr == <<"A", "B">>

InSetRules ==
  { Nameless,
    Rule(Name("expect_column_values_to_be_in_set"), ColumnName("id"), EmptyDict) }
  \cup { Rule(Name("expect_column_values_to_be_in_set"), ColumnName(c), ValueSet(vs)) :
           c \in {"id", "nope"},
           vs \in { <<Num(1)>>, <<Num(2), Num(1)>>,
                    <<Str(PlainStr), Str(EmailStr)>>,
                    <<Str(EmailStr), Str(UpperPlainStr)>> } }

SpecInSet == InitOn(DeepDatasets, RuleLists(InSetRules)) /\ [][Next]_vars

\* Type rules with temporal and other type names
DateType == <<"D", "a", "t", "e", "T", "y", "p", "e">>
LowerDateType == <<"d", "a", "t", "e">>

OfTypeRules ==
  { Nameless,
    Rule(Name("expect_column_values_to_be_of_type"), ColumnName("id"), EmptyDict) }
  \cup { Rule(Name("expect_column_values_to_be_of_type"), ColumnName(c), TypeIs(ty)) :
           c \in {"id", "nope"},
           ty \in {TimestampType, DateType, LowerDateType, IntegerType} }

SpecOfType == InitOn(DeepDatasets, RuleLists(OfTypeRules)) /\ [][Next]_vars

\* One rule of each of the eight kinds, a rule of no known kind, a rule that
\* faults and a rule without a name
EveryKindRules ==
  { Nameless,
    Rule(Name("expect_foo_bar"), NoColumn, NoParameters),
    Rule(Name("expect_table_row_count_to_be_between"), NoColumn, Range12),
    Rule(Name("expect_table_columns_to_match_ordered_list"), NoColumn,
         ColumnListIs(<<"id">>)),
    Rule(Name("expect_column_values_to_not_be_null"), ColumnName("id"), NoParameters),
    Rule(Name("expect_column_values_to_be_unique"), ColumnName("id"), NoParameters),
    Rule(Name("expect_column_values_to_match_regex"), ColumnName("id"),
         Regex(EmailPattern)),
    Rule(Name("expect_column_values_to_be_between"), ColumnName("id"), Range12),
    Rule(Name("expect_column_values_to_be_in_set"), ColumnName("id"),
         ValueSet(<<Num(1), Num(2)>>)),
    Rule(Name("expect_column_values_to_be_of_type"), ColumnName("id"),
         TypeIs(TimestampType)),
    Rule(Name("expect_column_values_to_be_unique"), ColumnName("nope"), NoParameters) }

SpecEveryKind == InitOn(BatchDatasets, RuleLists(EveryKindRules)) /\ [][Next]_vars

\* main() on tables of no row and of one row, with rules that pass, fail,
\* fault, yield a success without a truth value, or lack a name
MainDatasets == { DataFrame(n, <<Column("id", "int64", IdFill(n))>>) : n \in {0, 1} }

MainRules ==
  { Nameless,
    Rule(Name("expect_table_row_count_to_be_between"), NoColumn, Range12),
    Rule(Name("expect_column_values_to_not_be_null"), ColumnList(<<"id">>), NoParameters),
    Rule(Name("expect_column_values_to_be_unique"), ColumnName("nope"), NoParameters) }

SpecMain == InitMain(MainDatasets, RuleLists(MainRules)) /\ [][NextMain]_vars

\* main.py without arguments, for a table with and without a checkpoint,
\* and with arguments it does not accept
TableNames == {"test1", "test2"}
Arguments == { <<>>, <<"--table", "test1">>, <<"--table">>, <<"--all">> }

\* Every required variable is set
CompleteEnviron == [i \in 1..Len(RequiredVars) |-> EnvEntry(RequiredVars[i], <<Lit("x")>>)]

\* The same with one variable set to the empty string
EmptyHostname == [CompleteEnviron EXCEPT ![2] = EnvEntry(RequiredVars[2], <<>>)]

Tables(names) ==
  UNION { [1..n -> {TableConfig(Name(t)) : t \in names}] : n \in 0..MaxTables }

CheckpointFor(t) == CheckpointConfig(Name(CheckpointName(t)), Name(t))

CliCheckpoints ==
  { <<>>, <<CheckpointFor("test1")>>, <<CheckpointFor("test2"), CheckpointFor("test1")>> }

CliWorlds ==
  { Services(i, a, {}, {}, r, u, d) :
      i \in BOOLEAN, a \in BOOLEAN, d \in BOOLEAN,
      r \in [TableNames -> RunOutcomes], u \in 0..(MaxTables + 1) }

SpecCli ==
  /\ InitCli(Arguments, {CompleteEnviron, EmptyHostname}, Tables(TableNames),
             CliCheckpoints, CliWorlds)
  /\ [][NextCli]_vars

\* An environment with each required variable unset, set to the empty
\* string or set, as choice says
EnvironOf(choice) ==
  LET present == SelectSeq([i \in 1..Len(RequiredVars) |-> i],
                           LAMBDA i : choice[i] # "unset")
  IN [k \in 1..Len(present) |->
        EnvEntry(RequiredVars[present[k]],
                 IF choice[present[k]] = "empty" THEN <<>> ELSE <<Lit("x")>>)]

RequiredEnvirons ==
  { EnvironOf(choice) : choice \in [1..Len(RequiredVars) -> {"unset", "empty", "set"}] }

EnvWorlds ==
  { Services(TRUE, a, {}, {}, r, 0, TRUE) :
      a \in BOOLEAN, r \in [TableNames -> {"passed"}] }

SpecEnv ==
  /\ InitCli(Arguments, RequiredEnvirons, Tables({"test1"}),
             {<<CheckpointFor("test1")>>}, EnvWorlds)
  /\ [][NextCli]_vars

\* Configurations with entries that lack a key, and worlds in which the
\* creation of one suite or of one checkpoint fails
SetupTables ==
  UNION { [1..n -> {TableConfig(Name("test1")), TableConfig(Name("test2")),
                    TableConfig(NoName)}] : n \in 0..MaxTables }

SetupCheckpoints ==
  UNION { [1..n -> {CheckpointFor("test1"), CheckpointFor("test2"),
                    CheckpointConfig(NoName, Name("test1")),
                    CheckpointConfig(Name(CheckpointName("test2")), NoName)}] :
            n \in 0..MaxTables }

OneOrNone == {{}} \cup {{i} : i \in 1..MaxTables}

SetupWorlds ==
  { Services(TRUE, FALSE, sf, cf, r, 0, TRUE) :
      sf \in OneOrNone, cf \in OneOrNone, r \in [TableNames -> {"passed"}] }

SpecSetup ==
  /\ InitCli({<<>>, <<"--table", "test1">>}, {CompleteEnviron}, SetupTables,
             SetupCheckpoints, SetupWorlds)
  /\ [][NextCli]_vars

\* The longest configuration text, in pieces
MaxPieces == 2

LoaderVars == {"A", "B"}
LoaderValues == { <<>>, <<Lit("x")>>, <<Ref("A")>>, <<Ref("B")>> }

\* os.environ: at most one entry per variable, in any order
LoaderEnvirons ==
  { env \in UNION { [1..n -> {EnvEntry(k, v) : k \in LoaderVars, v \in LoaderValues}] :
                      n \in 0..Cardinality(LoaderVars) } :
      \A i, j \in 1..Len(env) : env[i].key = env[j].key => i = j }

LoaderTexts ==
  UNION { [1..n -> {Lit("key: "), Ref("A"), Ref("B"), Ref("C")}] : n \in 0..MaxPieces }

LoaderFiles ==
  { ConfigFile(e, r, t, v) : e \in BOOLEAN, r \in BOOLEAN, t \in LoaderTexts, v \in BOOLEAN }

SpecLoader == InitLoader(LoaderFiles, LoaderEnvirons) /\ [][NextLoader]_vars


-----------------------------------------------------------------------------
(* Vocabulary of the properties *)

\* The rule of the iteration a step idx -> idx + 1 runs
Exp == expectations_config[idx]
Iterates == idx' = idx + 1

HasName(exp) == exp.name.t = "str"
AllNamed == \A i \in 1..Len(expectations_config) : HasName(expectations_config[i])

IsError(r) == r.success = "False" /\ r.observed_value.fmt = "Error: {}"

\* exp['column'] is the name of a column the table has exactly once / lacks
NamesOneColumn(exp) ==
  /\ exp.column.t = "str"
  /\ Cardinality({i \in 1..Len(df.columns) : df.columns[i].name = exp.column.names[1]}) = 1
NamesNoColumn(exp) ==
  /\ exp.column.t = "str"
  /\ \A i \in 1..Len(df.columns) : df.columns[i].name # exp.column.names[1]
TheColumn(exp) ==
  df.columns[CHOOSE i \in 1..Len(df.columns) : df.columns[i].name = exp.column.names[1]]

ColumnScoped ==
  { "expect_column_values_to_not_be_null", "expect_column_values_to_be_unique",
    "expect_column_values_to_match_regex", "expect_column_values_to_be_between",
    "expect_column_values_to_be_in_set", "expect_column_values_to_be_of_type" }
Recognized ==
  ColumnScoped \cup { "expect_table_row_count_to_be_between",
                      "expect_table_columns_to_match_ordered_list" }

-----------------------------------------------------------------------------
(* C1: for rules that all carry a name, the call returns exactly one result *)
(* per rule, the i-th result bearing the i-th rule's name.                  *)
C1_OneResultPerRule ==
  (pc = "returned" /\ AllNamed) =>
    /\ Len(results) = Len(expectations_config)
    /\ \A i \in 1..Len(results) : results[i].expectation = expectations_config[i].name.v

(* C2: an iteration whose try block raises appends exactly one result, a    *)
(* failed one holding the error text, and the loop goes on to the next rule.*)
C2_FaultGivesOneFailedResult ==
  [][(Iterates /\ ExceptionIn(df, Exp) # NoExc) =>
       /\ Len(results') = Len(results) + 1
       /\ IsError(results'[Len(results')])
       /\ results'[Len(results')].observed_value.names
            = <<ExceptionIn(df, Exp).type, ExceptionIn(df, Exp).arg>>
       /\ pc' = "loop"]_vars

(* C3: a column-scoped rule of any kind whose column the table lacks gives  *)
(* a failed result carrying the error, and the loop goes on.                *)
C3_AbsentColumnFails ==
  [][(Iterates /\ Exp.name.v \in ColumnScoped /\ NamesNoColumn(Exp)) =>
       /\ IsError(results'[Len(results')])
       /\ pc' = "loop"]_vars

(* C4: when every rule carries a name the call never ends with an exception:*)
(* it is in its loop, within the list, or has returned at the list's end.   *)
C4_NoExceptionEscapes ==
  AllNamed =>
    /\ pc \in {"loop", "returned"}
    /\ idx <= Len(expectations_config) + 1
    /\ pc = "returned" => idx = Len(expectations_config) + 1

\* A call that returned although a rule lacked its column and parameters,
\* a rule faulted and a rule was of an unknown kind
C4_Witness ==
  /\ pc = "returned"
  /\ \E i \in 1..Len(expectations_config) :
       /\ expectations_config[i].name.v = "expect_table_row_count_to_be_between"
       /\ expectations_config[i].parameters.t = "absent"
  /\ \E i \in 1..Len(expectations_config) :
       expectations_config[i].name.v = "expect_foo_bar"
  /\ \E j \in 1..Len(results) : IsError(results[j])

(* C5: a rule whose name is none of the eight kinds appends one result:     *)
(* success True, observed_value 'Skipped', details saying the expectation   *)
(* is not implemented, whatever the table and the rule's other keys.        *)
C5_UnknownKindSkipped ==
  [][(Iterates /\ Exp.name.v \notin Recognized) =>
       results' = Append(results,
                         Result(Exp.name.v, "True", Text("Skipped", <<>>, <<>>, <<>>),
                                Text("Expectation {} not implemented in demo", <<>>,
                                     <<Exp.name.v>>, <<>>)))]_vars

C5_Witness ==
  /\ pc = "returned"
  /\ df.nrows > 0
  /\ \E i \in 1..Len(expectations_config) :
       /\ expectations_config[i].name.v = "expect_foo_bar"
       /\ expectations_config[i].column.t = "absent"
       /\ expectations_config[i].parameters.t = "absent"
  /\ \E i \in 1..Len(expectations_config) :
       /\ expectations_config[i].name.v = "expect_column_values_to_be_null"
       /\ expectations_config[i].column.t = "str"
       /\ expectations_config[i].parameters.t = "dict"
  /\ Len(results) = 2
  /\ \A j \in 1..2 : results[j].observed_value.fmt = "Skipped" /\ results[j].success = "True"

(* C6: a row-count rule with numeric bounds appends one result whose        *)
(* success is min_value <= row count <= max_value, both bounds inclusive,   *)
(* and whose observed_value is the row count.                               *)
C6_RowCountInclusive ==
  [][(Iterates /\ Exp.name.v = "expect_table_row_count_to_be_between"
        /\ Exp.parameters.t = "dict"
        /\ Exp.parameters.min_value.t = "int" /\ Exp.parameters.max_value.t = "int") =>
       /\ Len(results') = Len(results) + 1
       /\ results'[Len(results')].expectation = Exp.name.v
       /\ results'[Len(results')].success = "True" <=>
            ~(df.nrows < Exp.parameters.min_value.n \/ df.nrows > Exp.parameters.max_value.n)
       /\ results'[Len(results')].success \in {"True", "False"}
       /\ results'[Len(results')].observed_value = Text("int", <<df.nrows>>, <<>>, <<>>)]_vars

\* A row count equal to both bounds passed; one less than min_value failed
C6_Witness ==
  /\ pc = "returned"
  /\ Len(expectations_config) = 2 /\ Len(results) = 2
  /\ expectations_config[1].parameters.min_value = IntBound(df.nrows)
  /\ expectations_config[1].parameters.max_value = IntBound(df.nrows)
  /\ results[1].success = "True"
  /\ expectations_config[2].parameters.min_value = IntBound(df.nrows + 1)
  /\ expectations_config[2].parameters.max_value = IntBound(df.nrows + 1)
  /\ results[2].success = "False"

(* C7: a column-list rule appends one result whose success says that the    *)
(* table's column names equal column_list position for position (same      *)
(* length, same name at every position), and whose observed_value is the    *)
(* table's column list.                                                     *)
C7_ColumnsOrdered ==
  [][(Iterates /\ Exp.name.v = "expect_table_columns_to_match_ordered_list"
        /\ Exp.parameters.t = "dict" /\ Exp.parameters.column_list.t = "list") =>
       LET expected == Exp.parameters.column_list.names
           r == results'[Len(results')]
       IN /\ Len(results') = Len(results) + 1
          /\ r.success \in {"True", "False"}
          /\ r.success = "True" <=>
               /\ Len(expected) = Len(df.columns)
               /\ \A i \in 1..Len(df.columns) : df.columns[i].name = expected[i]
          /\ r.observed_value.fmt = "list"
          /\ Len(r.observed_value.names) = Len(df.columns)
          /\ \A i \in 1..Len(df.columns) : r.observed_value.names[i] = df.columns[i].name]_vars

\* The same names in another order failed, and so did a shorter list
C7_Witness ==
  /\ pc = "returned"
  /\ Len(df.columns) = 2 /\ df.columns[1].name = "id" /\ df.columns[2].name = "email"
  /\ Len(expectations_config) = 2 /\ Len(results) = 2
  /\ expectations_config[1].parameters.column_list.names = <<"email", "id">>
  /\ results[1].success = "False"
  /\ expectations_config[2].parameters.column_list.names = <<"id">>
  /\ results[2].success = "False"

\* The values of the rule's column, and whether some value occurs twice
ValuesOf(exp) == TheColumn(exp).vals
HasMissing(exp) == \E i \in 1..Len(ValuesOf(exp)) : IsNull(ValuesOf(exp)[i])
HasRepeat(exp) ==
  \E i, j \in 1..Len(ValuesOf(exp)) : i # j /\ ValuesOf(exp)[i] = ValuesOf(exp)[j]

IsUniqueRule(exp) == exp.name.v = "expect_column_values_to_be_unique"
IsNotNullRule(exp) == exp.name.v = "expect_column_values_to_not_be_null"

(* C8: on a column without missing values the uniqueness rule appends one   *)
(* result that succeeds exactly when no value occurs twice, and whose       *)
(* observed_value is '<u> unique out of <n>', u the number of distinct      *)
(* values and n the row count.                                              *)
C8_UniqueWithoutMissing ==
  [][(Iterates /\ IsUniqueRule(Exp) /\ NamesOneColumn(Exp) /\ ~HasMissing(Exp)) =>
       LET r == results'[Len(results')]
           u == Cardinality({ValuesOf(Exp)[i] : i \in 1..Len(ValuesOf(Exp))})
       IN /\ Len(results') = Len(results) + 1
          /\ r.success \in {"True", "False"}
          /\ r.success = "True" <=> ~HasRepeat(Exp)
          /\ r.success = "True" <=> u = df.nrows
          /\ r.observed_value = Text("{} unique out of {}", <<u, df.nrows>>, <<>>, <<>>)]_vars

\* A column holding one value twice failed with 1 unique out of 2
C8_Witness ==
  /\ pc = "returned"
  /\ Len(expectations_config) = 1 /\ IsUniqueRule(expectations_config[1])
  /\ df.columns = <<Column("id", "int64", <<Num(1), Num(1)>>)>>
  /\ Len(results) = 1
  /\ results[1].success = "False"
  /\ results[1].observed_value.nums = <<1, 2>>

(* C9 as claimed: the uniqueness rule succeeds exactly when the number of   *)
(* distinct values of the column, a missing value counted as one value,     *)
(* equals the row count.                                                    *)
C9_MissingCountsAsValue ==
  [][(Iterates /\ IsUniqueRule(Exp) /\ NamesOneColumn(Exp)) =>
       (results'[Len(results')].success = "True" <=>
          Cardinality({ValuesOf(Exp)[i] : i \in 1..Len(ValuesOf(Exp))}) = df.nrows)]_vars

(* C9 as amended: the uniqueness rule leaves missing values out of the      *)
(* distinct count: it succeeds exactly when the number of distinct          *)
(* non-missing values equals the row count, that is when the column has no  *)
(* missing value and no value twice; observed_value reports that count.     *)
C9_MissingLeftOut ==
  [][(Iterates /\ IsUniqueRule(Exp) /\ NamesOneColumn(Exp)) =>
       LET r == results'[Len(results')]
           present == {ValuesOf(Exp)[i] : i \in 1..Len(ValuesOf(Exp))} \ {Null}
       IN /\ Len(results') = Len(results) + 1
          /\ r.success \in {"True", "False"}
          /\ r.success = "True" <=> Cardinality(present) = df.nrows
          /\ r.success = "True" <=> (~HasMissing(Exp) /\ ~HasRepeat(Exp))
          /\ r.observed_value.nums = <<Cardinality(present), df.nrows>>]_vars

\* A column of one value and one missing value failed with 1 unique out of 2
C9_Witness ==
  /\ pc = "returned"
  /\ Len(expectations_config) = 1 /\ IsUniqueRule(expectations_config[1])
  /\ df.columns = <<Column("id", "float64", <<Num(1), Null>>)>>
  /\ Len(results) = 1
  /\ results[1].success = "False"
  /\ results[1].observed_value.nums = <<1, 2>>

(* C10: the not-null rule appends one result that succeeds exactly when     *)
(* the column holds no missing value (so a column of no rows succeeds),     *)
(* and whose observed_value is '<n> nulls in <column>', n the number of     *)
(* missing values.                                                          *)
C10_NotNull ==
  [][(Iterates /\ IsNotNullRule(Exp) /\ NamesOneColumn(Exp)) =>
       LET r == results'[Len(results')]
           n == Cardinality({i \in 1..df.nrows : ValuesOf(Exp)[i] = Null})
       IN /\ Len(results') = Len(results) + 1
          /\ r.success \in {"True", "False"}
          /\ r.success = "True" <=> ~HasMissing(Exp)
          /\ df.nrows = 0 => r.success = "True"
          /\ r.observed_value = Text("{} nulls in {}", <<n>>, Exp.column.names, <<>>)]_vars

\* A column holding one missing value failed with 1 nulls in id
C10_Witness ==
  /\ pc = "returned"
  /\ Len(expectations_config) = 1 /\ IsNotNullRule(expectations_config[1])
  /\ df.columns = <<Column("id", "object", <<Null, Str(EmailStr)>>)>>
  /\ Len(results) = 1
  /\ results[1].success = "False"
  /\ results[1].observed_value = Text("{} nulls in {}", <<1>>, <<"id">>, <<>>)

IsRegexRule(exp) ==
  /\ exp.name.v = "expect_column_values_to_match_regex"
  /\ exp.column.t = "str" /\ exp.parameters.t = "dict" /\ exp.parameters.regex.t = "str"

\* The pattern text spells e-mail in some mix of cases, or holds an '@'
EmailStyle(cs) ==
  \/ \E i \in 1..(Len(cs) - 4) :
       /\ cs[i] \in {"e", "E"} /\ cs[i + 1] \in {"m", "M"} /\ cs[i + 2] \in {"a", "A"}
       /\ cs[i + 3] \in {"i", "I"} /\ cs[i + 4] \in {"l", "L"}
  \/ \E i \in 1..Len(cs) : cs[i] = "@"

HasAt(c) == c.k = "str" /\ \E i \in 1..Len(c.s) : c.s[i] = "@"

(* C11: the match-regex rule chooses its check from the pattern text alone: *)
(* with a pattern that contains 'email' in any case, or '@', the values of  *)
(* a column of strings are counted for holding an '@'; with any other       *)
(* pattern the rule appends one passing result 'Pattern check passed',      *)
(* whatever the table holds.                                                *)
C11_RegexCheckFromPattern ==
  [][(Iterates /\ IsRegexRule(Exp)) =>
       LET r == results'[Len(results')]
       IN IF EmailStyle(Exp.parameters.regex.s)
          THEN (NamesOneColumn(Exp) /\ TheColumn(Exp).dtype = "object") =>
                 /\ Len(results') = Len(results) + 1
                 /\ r.observed_value =
                      Text("{} valid emails out of {}",
                           <<Cardinality({i \in 1..df.nrows : HasAt(ValuesOf(Exp)[i])}),
                             df.nrows>>, <<>>, <<>>)
          ELSE results' =
                 Append(results,
                        Result(Exp.name.v, "True",
                               Text("Pattern check passed", <<>>, <<>>, <<>>),
                               Text("Column {} regex validation", <<>>,
                                    Exp.column.names, <<>>)))]_vars

\* A mixed-case e-mail pattern counted the one value with an '@' and failed,
\* and another pattern passed on the same column
C11_Witness ==
  /\ pc = "returned"
  /\ df.columns = <<Column("id", "object", <<Str(EmailStr), Str(PlainStr)>>)>>
  /\ Len(expectations_config) = 2 /\ Len(results) = 2
  /\ expectations_config[1].parameters.regex.s = MixedCaseEmailPattern
  /\ results[1].success = "False"
  /\ results[1].observed_value.nums = <<1, 2>>
  /\ expectations_config[2].parameters.regex.s = OtherPattern
  /\ results[2].success = "True"

(* C12 as claimed: with an email-style pattern the match-regex rule         *)
(* succeeds exactly when every non-missing value of the column holds an     *)
(* '@'.                                                                     *)
C12_NonMissingDecide ==
  [][(Iterates /\ IsRegexRule(Exp) /\ EmailStyle(Exp.parameters.regex.s)
        /\ NamesOneColumn(Exp) /\ TheColumn(Exp).dtype = "object") =>
       (results'[Len(results')].success = "True" <=>
          \A i \in 1..df.nrows : IsNull(ValuesOf(Exp)[i]) \/ HasAt(ValuesOf(Exp)[i]))]_vars

IsBetweenRule(exp) ==
  /\ exp.name.v = "expect_column_values_to_be_between"
  /\ exp.column.t = "str" /\ exp.parameters.t = "dict"
  /\ exp.parameters.min_value.t = "int" /\ exp.parameters.max_value.t = "int"

IsNumeric(col) == col.dtype \in {"int64", "float64"}

\* The numbers a column holds, missing values left out
Present(exp) ==
  {ValuesOf(exp)[i].n : i \in {j \in 1..df.nrows : ValuesOf(exp)[j].k = "num"}}

(* C13: on a numeric column the values-between rule appends one result that *)
(* succeeds exactly when every value v satisfies min <= v <= max, both      *)
(* bounds included; a column holding a missing value fails; observed_value  *)
(* is 'Min: <min>, Max: <max>', the least and the greatest value present.   *)
C13_BetweenInclusive ==
  [][(Iterates /\ IsBetweenRule(Exp) /\ NamesOneColumn(Exp) /\ IsNumeric(TheColumn(Exp))) =>
       LET r == results'[Len(results')]
           lo == Exp.parameters.min_value.n
           hi == Exp.parameters.max_value.n
           seen == r.observed_value.cells
       IN /\ Len(results') = Len(results) + 1
          /\ r.success \in {"True", "False"}
          /\ r.success = "True" <=>
                \A i \in 1..df.nrows :
                  /\ ~IsNull(ValuesOf(Exp)[i])
                  /\ lo <= ValuesOf(Exp)[i].n /\ ValuesOf(Exp)[i].n <= hi
          /\ HasMissing(Exp) => r.success = "False"
          /\ r.observed_value.fmt = "Min: {}, Max: {}"
          /\ Len(seen) = 2
          /\ IF Present(Exp) = {} THEN seen = <<Null, Null>>
             ELSE /\ seen[1].k = "num" /\ seen[2].k = "num"
                  /\ seen[1].n \in Present(Exp) /\ seen[2].n \in Present(Exp)
                  /\ \A x \in Present(Exp) : seen[1].n <= x /\ x <= seen[2].n]_vars

\* A column of 1 and 2 passed between 1 and 2 and failed between 1 and 1,
\* both times with Min: 1, Max: 2
C13_Witness ==
  /\ pc = "returned"
  /\ df.columns = <<Column("id", "int64", <<Num(1), Num(2)>>)>>
  /\ Len(expectations_config) = 2 /\ Len(results) = 2
  /\ expectations_config[1].parameters = Bounds(IntBound(1), IntBound(2))
  /\ results[1].success = "True"
  /\ results[1].observed_value.cells = <<Num(1), Num(2)>>
  /\ expectations_config[2].parameters = Bounds(IntBound(1), IntBound(1))
  /\ results[2].success = "False"
  /\ results[2].observed_value.cells = <<Num(1), Num(2)>>

IsInSetRule(exp) ==
  /\ exp.name.v = "expect_column_values_to_be_in_set"
  /\ exp.column.t = "str" /\ exp.parameters.t = "dict"
  /\ exp.parameters.value_set.t = "list"

(* C14: the values-in-set rule appends one result that succeeds exactly     *)
(* when every value of the column equals some member of value_set, strings  *)
(* compared letter for letter with their case; observed_value lists the     *)
(* distinct values of the column, each once, the ones outside the set       *)
(* included.                                                                *)
C14_InSetExact ==
  [][(Iterates /\ IsInSetRule(Exp) /\ NamesOneColumn(Exp)) =>
       LET r == results'[Len(results')]
           set == Exp.parameters.value_set.vals
           seen == r.observed_value.cells
       IN /\ Len(results') = Len(results) + 1
          /\ r.success \in {"True", "False"}
          /\ r.success = "True" <=>
                \A i \in 1..df.nrows : \E j \in 1..Len(set) : set[j] = ValuesOf(Exp)[i]
          /\ r.observed_value.fmt = "list"
          /\ \A i, j \in 1..Len(seen) : seen[i] = seen[j] => i = j
          /\ {seen[i] : i \in 1..Len(seen)} = {ValuesOf(Exp)[i] : i \in 1..df.nrows}]_vars

\* A column holding 'ab' failed against a set holding 'AB', and the list of
\* its values shows 'ab'
C14_Witness ==
  /\ pc = "returned"
  /\ df.columns = <<Column("id", "object", <<Str(EmailStr), Str(PlainStr)>>)>>
  /\ Len(expectations_config) = 2 /\ Len(results) = 2
  /\ expectations_config[1].parameters.value_set.vals = <<Str(EmailStr), Str(UpperPlainStr)>>
  /\ results[1].success = "False"
  /\ results[1].observed_value.cells = <<Str(EmailStr), Str(PlainStr)>>
  /\ expectations_config[2].parameters.value_set.vals = <<Str(PlainStr), Str(EmailStr)>>
  /\ results[2].success = "True"

IsOfTypeRule(exp) ==
  /\ exp.name.v = "expect_column_values_to_be_of_type"
  /\ exp.column.t = "str" /\ exp.parameters.t = "dict"
  /\ exp.parameters.type_.t = "str"

\* The text spells the word, given as the two cases of each letter
Spells(cs, letters) ==
  \E i \in 0..(Len(cs) - Len(letters)) :
    \A k \in 1..Len(letters) : cs[i + k] \in letters[k]

TemporalStyle(cs) ==
  \/ Spells(cs, << {"t", "T"}, {"i", "I"}, {"m", "M"}, {"e", "E"}, {"s", "S"},
                   {"t", "T"}, {"a", "A"}, {"m", "M"}, {"p", "P"} >>)
  \/ Spells(cs, << {"d", "D"}, {"a", "A"}, {"t", "T"}, {"e", "E"} >>)

(* C15: the of-type rule appends one result whose observed_value is the     *)
(* dtype of the column as text; when the expected type name contains        *)
(* 'timestamp' or 'date' in any case it succeeds exactly when the column is *)
(* a datetime column, and with any other type name it succeeds whatever the *)
(* dtype of the column.                                                     *)
C15_OfTypeTemporalOnly ==
  [][(Iterates /\ IsOfTypeRule(Exp) /\ NamesOneColumn(Exp)) =>
       LET r == results'[Len(results')]
       IN /\ Len(results') = Len(results) + 1
          /\ r.observed_value = Text("{}", <<>>, <<TheColumn(Exp).dtype>>, <<>>)
          /\ IF TemporalStyle(Exp.parameters.type_.s)
             THEN /\ r.success \in {"True", "False"}
                  /\ r.success = "True" <=> TheColumn(Exp).dtype = "datetime64[ns]"
             ELSE r.success = "True"]_vars

\* An int64 column failed as TimestampType and passed as IntegerType
C15_Witness ==
  /\ pc = "returned"
  /\ df.columns = <<Column("id", "int64", <<Num(1), Num(2)>>)>>
  /\ Len(expectations_config) = 2 /\ Len(results) = 2
  /\ expectations_config[1].parameters.type_.s = TimestampType
  /\ results[1].success = "False"
  /\ results[1].observed_value.names = <<"int64">>
  /\ expectations_config[2].parameters.type_.s = IntegerType
  /\ results[2].success = "True"

\* Every result of both tables has success = True
AllPassed ==
  /\ Len(test_results) = Len(tests)
  /\ \A k \in 1..Len(test_results) : \A i \in 1..Len(test_results[k]) :
       test_results[k][i].success = "True"

SomeFailed ==
  \E k \in 1..Len(test_results) : \E i \in 1..Len(test_results[k]) :
    test_results[k][i].success = "False"

(* C16: when main() of the manual runner has ended, the exit code is 0      *)
(* exactly when both calls returned and every result of both tables has     *)
(* success = True, and main() reports overall success in exactly that case; *)
(* the exit code is 1 otherwise, in particular whenever some result has     *)
(* success = False.                                                         *)
C16_ExitCodeOfMain ==
  main_pc = "exited" =>
    /\ exit_code \in {<<0>>, <<1>>}
    /\ exit_code = <<0>> <=> AllPassed
    /\ overall_success = "True" <=> AllPassed
    /\ SomeFailed => exit_code = <<1>>

\* main() ended with code 1 after test1 passed and test2 failed one rule
C16_Witness ==
  /\ main_pc = "exited"
  /\ Len(test_results) = 2
  /\ Len(test_results[1]) = 1 /\ test_results[1][1].success = "True"
  /\ Len(test_results[2]) = 2
  /\ test_results[2][1].success = "True" /\ test_results[2][2].success = "False"
  /\ overall_success = "False"
  /\ exit_code = <<1>>

(* C18: the result list of a call depends on the table and the rules alone: *)
(* when main() hands equal tables and equal rules to its two calls, under   *)
(* the labels test1 and test2 and the second call made after the first, the *)
(* two calls return equal result lists; and every call starts its loop with *)
(* an empty result list, nothing of an earlier call left in it.             *)
C18_FunctionOfInputs ==
  /\ (pc = "loop" /\ idx = 1) => results = <<>>
  /\ (/\ Len(test_results) = 2
      /\ tests[1].df = tests[2].df
      /\ tests[1].expectations = tests[2].expectations)
       => test_results[1] = test_results[2]

\* Both calls ran the same two rules on the same table of no row, as test1
\* and as test2, and both returned the same passing and failed result
C18_Witness ==
  /\ Len(test_results) = 2
  /\ tests[1].table_name # tests[2].table_name
  /\ tests[1].df = tests[2].df
  /\ tests[1].expectations = tests[2].expectations
  /\ Len(tests[1].expectations) = 2
  /\ test_results[1] = test_results[2]
  /\ Len(test_results[2]) = 2
  /\ test_results[2][1].success = "False"
  /\ IsError(test_results[2][2])
  /\ pc = "assigned" /\ table_name = "test2"

(* C19: no step of a call changes the table or the list of rules it was     *)
(* given, whatever the kind of the rule and whether it passes, fails or     *)
(* faults; only the result list and the loop position move.                 *)
C19_InputsUnchanged ==
  [][pc = "loop" => (df' = df /\ expectations_config' = expectations_config)]_vars

\* A call returned after a rule that faulted on a column the table lacks
\* and a regex rule that failed, on a table that still has its two rows
C19_Witness ==
  /\ pc = "returned"
  /\ df.columns = <<Column("id", "object", <<Str(EmailStr), Str(PlainStr)>>)>>
  /\ Len(expectations_config) = 2 /\ Len(results) = 2
  /\ expectations_config[1].column = ColumnName("nope")
  /\ IsError(results[1])
  /\ expectations_config[2].parameters = Regex(EmailPattern)
  /\ results[2].success = "False"

(* C20 as claimed: rules are evaluated one by one and independently, so     *)
(* that in the list a call returns the result at position i is the single   *)
(* result of evaluating the list of rule i alone on the same table,         *)
(* whatever the earlier rules did.                                          *)
C20_ResultAtItsPosition ==
  pc = "returned" =>
    \A i \in 1..Len(expectations_config) :
      /\ Len(Appended(df, expectations_config[i])) = 1
      /\ i <= Len(results)
      /\ results[i] = Appended(df, expectations_config[i])[1]

(* C17 as claimed: main.py ends with code 0 only when every validated       *)
(* table's result has success = True; a run in which some table's result    *)
(* has success = False or carries an error ends with code 1.                *)
C17_ExitZeroOnlyIfAllPass ==
  step = "exited" =>
    /\ status = <<0>> =>
         \A i \in 1..Len(validation_results) :
           validation_results[i].success = "True" /\ validation_results[i].error = ""
    /\ (\E i \in 1..Len(validation_results) :
          validation_results[i].success = "False" \/ validation_results[i].error # "")
         => status = <<1>>

-----------------------------------------------------------------------------
(* main.py and GXRunner: errors, order of the steps, storage.               *)

\* main.py was started without arguments and main() has returned
MainReturned == step = "exited" /\ argv = <<>>

\* The steps of main() entered so far, cleanup left out
StepsEntered == SelectSeq(trace, LAMBDA name : name # "cleanup")

WithCheckpoint(cps) ==
  {i \in 1..Len(table_configs) : CheckpointName(table_configs[i].name.v) \in cps}

Kth(S, k) == CHOOSE i \in S : Cardinality({j \in S : j < i}) = k - 1

(* C22: run_all_validations, once the suites and checkpoints are set up,    *)
(* returns normally whatever the validations do; its list has one result    *)
(* per configured table that has a checkpoint '<table>_checkpoint', in the  *)
(* order of the configuration, and none for the other tables; the result of *)
(* a table whose validation raised has success False and the error text.    *)
C22_OneResultPerTable ==
  [][(step = "validate" /\ ~Setup(table_configs, checkpoints_config, services).raised) =>
       LET has == WithCheckpoint(checkpoints')
           res == validation_results'
       IN /\ step' = "store"
          /\ raised' = ""
          /\ Len(res) = Cardinality(has)
          /\ \A k \in 1..Len(res) :
               LET tname == table_configs[Kth(has, k)].name.v
                   out == RunValidation(tname, services.runs[tname], k)
               IN /\ res[k].table_name = tname
                  /\ out.raised => res[k].success = "False" /\ res[k].error = out.error
                  /\ ~out.raised => res[k] = out.result]_vars

C22_Witness ==
  /\ step = "store"
  /\ Len(table_configs) = 2
  /\ table_configs[1] # table_configs[2]
  /\ Len(validation_results) = 1
  /\ validation_results[1].table_name = table_configs[2].name.v
  /\ validation_results[1].success = "False"
  /\ validation_results[1].error # ""

-----------------------------------------------------------------------------
(* DQYamlParser.load_config.                                                *)

\* The value of the variable in the environment, the placeholder itself
\* when the variable is not set
ValueOf(env, piece) ==
  IF piece.ph /\ \E i \in 1..Len(env) : env[i].key = piece.s
  THEN env[CHOOSE i \in 1..Len(env) : env[i].key = piece.s].value
  ELSE <<piece>>

RECURSIVE Expanded(_, _)
\* The text with every placeholder of a set variable replaced by the
\* variable's value
Expanded(text, env) ==
  IF text = <<>> THEN <<>> ELSE ValueOf(env, Head(text)) \o Expanded(Tail(text), env)

(* C23 as claimed: load_config parses the file's text with every ${NAME}    *)
(* replaced by the value of the environment variable NAME and with the      *)
(* placeholders of unset variables left as they are, and the only exception *)
(* it raises is ConfigurationError.                                         *)
C23_PlaceholdersReplaced ==
  load_pc = "done" =>
    /\ config.raised \in {"", "ConfigurationError"}
    /\ config.raised = "" => config.text = Expanded(file.text, environ)

-----------------------------------------------------------------------------
(* GXRunner.run_validation.                                                 *)

\* The success a validation result carries for an outcome of checkpoint.run()
SuccessOf(run) == IF run = "passed" THEN "True" ELSE "False"

(* C24 as claimed: when checkpoint.run() completes without raising,         *)
(* run_validation returns a result whose table_name is the given table and  *)
(* whose success is that of the checkpoint result, and appends it to        *)
(* self.validation_results; when the execution fails it raises              *)
(* ValidationError and appends nothing.                                     *)
C24_RunValidationReturns ==
  [][step = "run" =>
       LET run == services.runs[argv[2]]
       IN IF run = "raised"
          THEN /\ raised' = "ValidationError"
               /\ self_validation_results' = self_validation_results
          ELSE /\ raised' # "ValidationError"
               /\ Len(validation_results') = 1
               /\ validation_results'[1].table_name = argv[2]
               /\ validation_results'[1].success = SuccessOf(run)
               /\ self_validation_results' =
                    Append(self_validation_results, validation_results'[1])]_vars

-----------------------------------------------------------------------------
(* main(): the order of the steps and cleanup.                              *)

StepOrder ==
  << "validate_environment", "initialize", "run_all_validations", "store_results",
     "generate_documentation", "print_summary" >>

Cleanups == {i \in 1..Len(trace) : trace[i] = "cleanup"}

(* C25: main() enters its steps in the fixed order environment check,       *)
(* construction and initialize, run_all_validations, store_results,         *)
(* generate_documentation, summary, each one only after all the earlier     *)
(* ones completed, and none after one raised; cleanup runs exactly in the   *)
(* runs in which the GXRunner was constructed, once and as the last step,   *)
(* and so never when the environment check failed.                          *)
C25_StepsInOrder ==
  (argv = <<>> /\ step # "start") =>
    /\ Len(StepsEntered) <= Len(StepOrder)
    /\ \A i \in 1..Len(StepsEntered) : StepsEntered[i] = StepOrder[i]
    /\ raised # "" => step = "exited"
    /\ (raised = "" /\ step = "exited") => StepsEntered = StepOrder
    /\ gx_runner # "None" <=> Len(StepsEntered) >= 2
    /\ step # "exited" => Cleanups = {}
    /\ step = "exited" =>
         /\ gx_runner # "None" => Cleanups = {Len(trace)}
         /\ gx_runner = "None" => Cleanups = {}
         /\ (raised = "ConfigurationError" /\ Len(StepsEntered) = 1) => Cleanups = {}

C25_Witness ==
  /\ MainReturned
  /\ raised = "StorageError"
  /\ trace = << "validate_environment", "initialize", "run_all_validations",
                "store_results", "cleanup" >>

-----------------------------------------------------------------------------
(* GXRunner.store_results.                                                  *)

(* C26: store_results uploads nothing and returns normally when there is no *)
(* ADLS client; with a client it uploads one document per result, in list   *)
(* order, at validation_results/<table_name>/<timestamp>.json and then      *)
(* exactly one summary; when an upload fails it raises StorageError, the    *)
(* uploads made before stay and the summary is not uploaded.                *)
C26_UploadsOfStoreResults ==
  [][step = "store" =>
       LET res == validation_results
           n == Len(res)
           failing == services.upload_fails
           PathOf(i) == <<"validation_results", res[i].table_name, res[i].timestamp>>
           Summaries == {i \in 1..Len(uploads') : Len(uploads'[i]) = 2}
       IN /\ adls_client = "None" => uploads' = <<>> /\ step' = "docs" /\ raised' = ""
          /\ (adls_client # "None" /\ failing \notin 1..(n + 1)) =>
               /\ step' = "docs" /\ raised' = ""
               /\ Len(uploads') = n + 1
               /\ \A i \in 1..n : uploads'[i] = PathOf(i)
               /\ Summaries = {n + 1}
          /\ (adls_client # "None" /\ failing \in 1..(n + 1)) =>
               /\ raised' = "StorageError"
               /\ Len(uploads') = failing - 1
               /\ \A i \in 1..(failing - 1) : uploads'[i] = PathOf(i)
               /\ Summaries = {}]_vars

C26_Witness ==
  /\ MainReturned
  /\ raised = "StorageError"
  /\ adls_client # "None"
  /\ Len(validation_results) = 2
  /\ Len(uploads) = 1
  /\ uploads[1] = <<"validation_results", validation_results[1].table_name, 1>>

-----------------------------------------------------------------------------
(* main._validate_environment.                                              *)

\* The required variables that are unset or empty
UnsetOrEmpty ==
  { RequiredVars[k] : k \in {i \in 1..Len(RequiredVars) :
      \A e \in 1..Len(environ) :
        environ[e].key = RequiredVars[i] => environ[e].value = <<>>} }

PositionOf(var) == CHOOSE k \in 1..Len(RequiredVars) : RequiredVars[k] = var

(* C27: _validate_environment raises ConfigurationError exactly when one of *)
(* the five required variables is unset or empty; the message names all the *)
(* missing variables, each once, in the order of the required list; main()  *)
(* then returns 1 with no GXRunner constructed and no validation run.       *)
C27_MissingVariables ==
  [][step = "env" =>
       LET names == logged'.names
       IN /\ UnsetOrEmpty # {} <=> raised' = "ConfigurationError"
          /\ UnsetOrEmpty = {} => step' = "init"
          /\ UnsetOrEmpty # {} =>
               /\ {names[i] : i \in 1..Len(names)} = UnsetOrEmpty
               /\ \A i, j \in 1..Len(names) :
                    i < j => PositionOf(names[i]) < PositionOf(names[j])
               /\ argv = <<>> =>
                    /\ status' = <<1>>
                    /\ step' = "exited"
                    /\ gx_runner' = "None"
                    /\ validation_results' = <<>>
                    /\ trace' = <<"validate_environment">>]_vars

C27_Witness ==
  /\ MainReturned
  /\ status = <<1>>
  /\ logged.names = <<"DATABRICKS_SERVER_HOSTNAME", "ADLS_ACCOUNT_KEY">>
  /\ \E e \in 1..Len(environ) :
       environ[e].key = "DATABRICKS_SERVER_HOSTNAME" /\ environ[e].value = <<>>
  /\ \A e \in 1..Len(environ) : environ[e].key # "ADLS_ACCOUNT_KEY"

-----------------------------------------------------------------------------
(* DQYamlParser.create_expectation_suites and create_checkpoints.           *)

SetsUp == step \in {"validate", "table"}

TablesNamed == \A i \in 1..Len(table_configs) : table_configs[i].name.t # "absent"

CheckpointsKeyed ==
  \A i \in 1..Len(checkpoints_config) :
    checkpoints_config[i].name.t # "absent" /\ checkpoints_config[i].table.t # "absent"

\* The tables, and for given suites the checkpoints, whose entry is
\* complete and whose creation did not fail
SuitesNotFailed ==
  { table_configs[i].name.v :
      i \in {j \in 1..Len(table_configs) :
               table_configs[j].name.t # "absent" /\ j \notin services.suite_fails} }

CheckpointsNotFailed(suites) ==
  { checkpoints_config[i].name.v :
      i \in {j \in 1..Len(checkpoints_config) :
               /\ checkpoints_config[j].name.t # "absent"
               /\ checkpoints_config[j].table.t # "absent"
               /\ checkpoints_config[j].table.v \in suites
               /\ j \notin services.checkpoint_fails} }

(* C28 as claimed: create_expectation_suites returns a suite for exactly    *)
(* the configured tables whose creation did not fail, create_checkpoints a  *)
(* checkpoint for exactly the configured checkpoints whose table has a      *)
(* suite and whose creation did not fail, and a failure for one table never *)
(* removes or aborts another's.                                             *)
C28_FailuresIsolated ==
  [][SetsUp =>
       /\ raised' # "ValidationError"
       /\ expectation_suites' = SuitesNotFailed
       /\ checkpoints' = CheckpointsNotFailed(expectation_suites')]_vars

(* C28, amended: the same when every 'tables' entry has a name and every    *)
(* 'checkpoints' entry a name and a table; an entry that lacks one of these *)
(* keys ends the creation with ValidationError and nothing is returned.     *)
C28_FailuresIsolatedWhenKeyed ==
  [][SetsUp =>
       /\ TablesNamed => expectation_suites' = SuitesNotFailed
       /\ (TablesNamed /\ CheckpointsKeyed) =>
            /\ raised' = ""
            /\ checkpoints' = CheckpointsNotFailed(expectation_suites')
       /\ ~(TablesNamed /\ CheckpointsKeyed) =>
            /\ raised' = "ValidationError"
            /\ checkpoints' = {}
            /\ validation_results' = <<>>]_vars

C28_Witness ==
  /\ step = "store"
  /\ Len(table_configs) = 2
  /\ table_configs[1].name # table_configs[2].name
  /\ services.suite_fails = {1}
  /\ services.checkpoint_fails = {}
  /\ Len(checkpoints_config) = 2
  /\ expectation_suites = {table_configs[2].name.v}
  /\ checkpoints = {CheckpointName(table_configs[2].name.v)}

-----------------------------------------------------------------------------
(* The reports on an empty list of validation results.                      *)

(* C29 as claimed: for the empty list of validation results every producer  *)
(* of a summary or report completes without raising and reports a success   *)
(* rate of 0: the guarded computations do, the HTML report does, and so     *)
(* generate_documentation on the empty list goes on to the summary.         *)
C29_EmptyListReports ==
  [][(step = "docs" /\ validation_results = <<>> /\ services.docs) =>
       /\ GuardedRate(validation_results) = [raised |-> FALSE, rate |-> 0]
       /\ HtmlRate(validation_results) = [raised |-> FALSE, rate |-> 0]
       /\ step' = "summary"
       /\ raised' = ""]_vars

-----------------------------------------------------------------------------
(* setup_logger.                                                            *)

\* A logger as its first call leaves it: one console handler, perhaps one
\* file handler after it, both at the logger's level
AsFirstCallLeftIt(logger) ==
  /\ Len(logger.handlers) \in {1, 2}
  /\ logger.handlers[1] = Handler("console", logger.level)
  /\ Len(logger.handlers) = 2 => logger.handlers[2] = Handler("file", logger.level)

(* C30: setup_logger never adds handlers twice: every logger either has no  *)
(* handler yet or carries what one call adds, a console handler and at most *)
(* one file handler; a call for a name whose logger has handlers returns    *)
(* that logger and leaves its handlers and its level as they were.          *)
C30_HandlersAddedOnce ==
  /\ [](\A name \in DOMAIN loggers :
          loggers[name].handlers = <<>> \/ AsFirstCallLeftIt(loggers[name]))
  /\ [][\A name \in DOMAIN loggers :
          /\ loggers[name].handlers # <<>> => loggers'[name] = loggers[name]
          /\ loggers'[name] # loggers[name] => returned' = name]_vars

C30_Witness ==
  /\ calls = MaxCalls
  /\ returned = "__main__"
  /\ loggers["__main__"] = Logger(<<Handler("console", "DEBUG")>>, "DEBUG")
  /\ loggers["src.gx_runner"].handlers = <<>>

====
